---- MODULE Spec2Model ----
(***************************************************************************)
(* Verification model of web-identity-schemas: the credential and          *)
(* presentation type-tag validators, the JSON-LD context validator and the *)
(* status-list credential schemas, in their Zod and Valibot front-ends.    *)
(*                                                                         *)
(* Every schema is a pure function from a JSON value to an accepted output *)
(* or a rejection.  A state of the model is a value awaiting validation     *)
(* (kind, arg, input) and the last validation call made on it (schema,     *)
(* result).                                                                *)
(***************************************************************************)
EXTENDS Integers, Sequences, FiniteSets, TLC

VARIABLES kind, schema, arg, input, result

vars == <<kind, schema, arg, input, result>>

(***************************************************************************)
(* Bounds of the explored inputs.                                          *)
(***************************************************************************)
MaxTypes == 3
MaxDeclared == 2
MaxContexts == 3
MaxMandated == 2

(***************************************************************************)
(* JSON values.  Every value is a record [t, v]: t is the JavaScript kind, *)
(* v the payload (a string, a number, a sequence of values, or a function  *)
(* from keys to values).                                                   *)
(***************************************************************************)
JStr(s) == [t |-> "string", v |-> s]
JNum(n) == [t |-> "number", v |-> n]
JArr(a) == [t |-> "array", v |-> a]
JObj(m) == [t |-> "object", v |-> m]
JNull == [t |-> "null", v |-> <<>>]
Undefined == [t |-> "undefined", v |-> <<>>]

IsString(x) == x.t = "string"
IsArray(x) == x.t = "array"
IsObject(x) == x.t = "object"

\* JavaScript truthiness, as used by `if (additionalTypes)` and `if (types)`.
Truthy(x) ==
    CASE x.t = "undefined" -> FALSE
      [] x.t = "null" -> FALSE
      [] x.t = "string" -> x.v /= ""
      [] x.t = "number" -> x.v /= 0
      [] OTHER -> TRUE

\* Array.prototype.flat() with the default depth 1, on the elements of an array.
RECURSIVE Flat(_)
Flat(a) ==
    IF a = <<>> THEN <<>>
    ELSE (IF IsArray(Head(a)) THEN Head(a).v ELSE <<Head(a)>>) \o Flat(Tail(a))

\* Array.prototype.includes on the elements of an array.
Includes(a, e) == \E i \in 1..Len(a) : a[i] = e

(***************************************************************************)
(* Results of a validation: an accepted output value, or a rejection.      *)
(***************************************************************************)
Accept(value) == [ok |-> TRUE, value |-> value]
Reject == [ok |-> FALSE, value |-> Undefined]

\* z.union / v.union: the result of the first option that accepts.
Union(options) ==
    IF \E i \in 1..Len(options) : options[i].ok
    THEN options[CHOOSE i \in 1..Len(options) :
                    options[i].ok /\ \A j \in 1..(i - 1) : ~options[j].ok]
    ELSE Reject

\* z.literal(lit) / v.literal(lit), lit a string.
Literal(lit, x) == IF x = JStr(lit) THEN Accept(x) ELSE Reject

\* z.string() / v.string().
String(x) == IF IsString(x) THEN Accept(x) ELSE Reject

\* z.array(z.string()) / v.array(v.string()).
ArrayOfString(x) ==
    IF IsArray(x) /\ \A i \in 1..Len(x.v) : IsString(x.v[i]) THEN Accept(x) ELSE Reject

\* z.tuple([z.literal(l1), ..., z.literal(ln)]): exactly n items, item i the literal li.
ZodTuple(lits, x) ==
    IF /\ IsArray(x)
       /\ Len(x.v) = Len(lits)
       /\ \A i \in 1..Len(lits) : x.v[i] = lits[i]
    THEN Accept(x) ELSE Reject

\* z.tuple([...literals]).rest(z.string()): the items, then any number of strings.
ZodTupleRestString(lits, x) ==
    IF /\ IsArray(x)
       /\ Len(x.v) >= Len(lits)
       /\ \A i \in 1..Len(lits) : x.v[i] = lits[i]
       /\ \A i \in (Len(lits) + 1)..Len(x.v) : IsString(x.v[i])
    THEN Accept(x) ELSE Reject

\* v.tuple([...literals]): the n items must match; items beyond them are
\* removed from the output.
ValibotTuple(lits, x) ==
    IF /\ IsArray(x)
       /\ Len(x.v) >= Len(lits)
       /\ \A i \in 1..Len(lits) : x.v[i] = lits[i]
    THEN Accept(JArr(SubSeq(x.v, 1, Len(lits)))) ELSE Reject

(***************************************************************************)
(* Shared helpers: one-or-many normalizer and containment refinement.      *)
(***************************************************************************)
\* oneOrMany with the transform (val) => [val]: an array is wrapped once more.
zod_oneOrMany_wrap(x) ==
    LET u == Union(<<String(x), ArrayOfString(x)>>)
    IN  IF u.ok THEN Accept(JArr(<<u.value>>)) ELSE Reject

\* zod oneOrMany(z.string()): union of a string and an array of strings,
\* transformed by [val].flat().
zod_oneOrMany(x) ==
    LET u == Union(<<String(x), ArrayOfString(x)>>)
    IN  IF u.ok THEN Accept(JArr(Flat(<<u.value>>))) ELSE Reject

\* valibot oneOrMany(v.string()).
valibot_oneOrMany(x) ==
    LET u == Union(<<String(x), ArrayOfString(x)>>)
    IN  IF u.ok THEN Accept(JArr(Flat(<<u.value>>))) ELSE Reject

\* Containment at the same positions: values must be a prefix of val.
includesAll_prefix(values, val) ==
    /\ Len(values) <= Len(val)
    /\ \A i \in 1..Len(values) : val[i] = values[i]

includesAll_some(values, val) == \E i \in 1..Len(values) : Includes(val, values[i])

\* includesAll(values)(val): values.every((v) => val.includes(v)).
includesAll(values, val) == \A i \in 1..Len(values) : Includes(val, values[i])

\* z.array(z.string()).refine(includesAll(values)) /
\* v.pipe(v.array(v.string()), includesAll(values)).
includesAllSchema(values, x) ==
    IF ArrayOfString(x).ok /\ includesAll(values.v, x.v) THEN Accept(x) ELSE Reject

(***************************************************************************)
(* Credential type-tag validators.                                         *)
(***************************************************************************)
VcTypeLiteral == "VerifiableCredential"
VpTypeLiteral == "VerifiablePresentation"

\* The literal items of the tuple built from additionalTypes (a string or a list).
TupleItems(first, additionalTypes) ==
    IF IsString(additionalTypes)
    THEN <<JStr(first), additionalTypes>>
    ELSE <<JStr(first)>> \o additionalTypes.v

\* Mutants of the first-position validator: the refinement on types[0] dropped,
\* the tuple given a rest element, the string-wrapping transform dropped.
zod_credentialTypeSchema_tuple_noRefine(additionalTypes, x) ==
    IF Truthy(additionalTypes)
    THEN ZodTuple(TupleItems(VcTypeLiteral, additionalTypes), x)
    ELSE LET u == Union(<<Literal(VcTypeLiteral, x),
                          ZodTuple(<<JStr(VcTypeLiteral)>>, x),
                          IF ArrayOfString(x).ok /\ Len(x.v) >= 1
                          THEN Accept(x) ELSE Reject>>)
         IN  IF u.ok /\ IsString(u.value) THEN Accept(JArr(<<u.value>>)) ELSE u

zod_credentialTypeSchema_tuple_rest(additionalTypes, x) ==
    IF Truthy(additionalTypes)
    THEN ZodTupleRestString(TupleItems(VcTypeLiteral, additionalTypes), x)
    ELSE zod_credentialTypeSchema_tuple_noRefine(additionalTypes, x)

zod_credentialTypeSchema_tuple_noTransform(additionalTypes, x) ==
    IF Truthy(additionalTypes)
    THEN ZodTuple(TupleItems(VcTypeLiteral, additionalTypes), x)
    ELSE Union(<<Literal(VcTypeLiteral, x),
                 ZodTuple(<<JStr(VcTypeLiteral)>>, x),
                 IF /\ ArrayOfString(x).ok
                    /\ Len(x.v) >= 1
                    /\ x.v[1] = JStr(VcTypeLiteral)
                 THEN Accept(x) ELSE Reject>>)

\* zod credentialTypeSchema, first-position / exact-tuple policy.
zod_credentialTypeSchema_tuple(additionalTypes, x) ==
    IF Truthy(additionalTypes)
    THEN ZodTuple(TupleItems(VcTypeLiteral, additionalTypes), x)
    ELSE LET u == Union(<<Literal(VcTypeLiteral, x),
                          ZodTuple(<<JStr(VcTypeLiteral)>>, x),
                          IF /\ ArrayOfString(x).ok
                             /\ Len(x.v) >= 1
                             /\ x.v[1] = JStr(VcTypeLiteral)
                          THEN Accept(x) ELSE Reject>>)
         IN  IF u.ok /\ IsString(u.value) THEN Accept(JArr(<<u.value>>)) ELSE u

\* requiredTypes of the containment policy:
\* additionalTypes ? ["VerifiableCredential", ...[additionalTypes].flat()]
\*                 : ["VerifiableCredential"]
requiredTypes(additionalTypes) ==
    IF Truthy(additionalTypes)
    THEN <<JStr(VcTypeLiteral)>> \o Flat(<<additionalTypes>>)
    ELSE <<JStr(VcTypeLiteral)>>

\* zod credentialTypeSchema, containment policy:
\* pipe(oneOrMany(string), array(string).refine(includesAll(requiredTypes))).
zod_credentialTypeSchema(additionalTypes, x) ==
    LET n == zod_oneOrMany(x)
    IN  IF /\ n.ok
           /\ ArrayOfString(n.value).ok
           /\ includesAll(requiredTypes(additionalTypes), n.value.v)
        THEN Accept(n.value) ELSE Reject

\* valibot credentialTypeSchema: pipe(oneOrMany(string), includesAll(requiredTypes)).
valibot_credentialTypeSchema(additionalTypes, x) ==
    LET n == valibot_oneOrMany(x)
    IN  IF n.ok /\ includesAll(requiredTypes(additionalTypes), n.value.v)
        THEN Accept(n.value) ELSE Reject

(***************************************************************************)
(* Presentation type-tag validators.                                       *)
(***************************************************************************)
\* zod presentationTypeSchema(types).
zod_presentationTypeSchema(types, x) ==
    IF Truthy(types)
    THEN IF IsString(types)
         THEN ZodTupleRestString(<<types>>, x)
         ELSE IF Len(types.v) = 0
              THEN Reject
              ELSE ZodTuple(types.v, x)
    ELSE Union(<<Literal(VpTypeLiteral, x),
                 IF /\ ArrayOfString(x).ok
                    /\ Len(x.v) >= 1
                    /\ x.v[1] = JStr(VpTypeLiteral)
                 THEN Accept(x) ELSE Reject>>)

\* valibot vpTypeSchema(type).
valibot_vpTypeSchema(type, x) ==
    IF Truthy(type)
    THEN ValibotTuple(<<JStr(VpTypeLiteral)>> \o Flat(<<type>>), x)
    ELSE Union(<<Literal(VpTypeLiteral, x),
                 IF /\ ArrayOfString(x).ok
                    /\ Len(x.v) >= 1
                    /\ x.v[1] = JStr(VpTypeLiteral)
                 THEN Accept(x) ELSE Reject>>)

(***************************************************************************)
(* Strings whose spelling matters.  A TLA+ string is atomic, so the        *)
(* characters of every string a pattern is matched against are listed.     *)
(***************************************************************************)
vcV1CoreContext == "https://www.w3.org/2018/credentials/v1"
vcV2CoreContext == "https://www.w3.org/ns/credentials/v2"
statusList2021Context == "https://w3id.org/vc/status-list/2021/v1"
bitstringStatusListContext == "https://www.w3.org/ns/credentials/status/v1"
CustomContext == "https://example.com/custom-context/v1"
NotAUri == "not-a-uri"
SchemeOnly == "urn:"
DigitScheme == "1abc:def"
ExampleDid == "did:example:123"
SampleTimestamp == "2023-01-01T00:00:00Z"
SampleEncodedList == "H4sIAAAAAAAAAKtWyk1VslIyNjPQM7Q01ivOVLI30os3AAAczJJKNQAAAA"

BadDid == "did:bad:123"
TestSignature == "test-signature"
PaddedBase64 == "dGVzdA=="
NotBase64Url == "not base64url!"

\* The segments compact JWS/JWT strings are built from, and those strings.
NoneHeader == "eyJhbGciOiJub25lIn0"
HS256Header == "eyJhbGciOiJIUzI1NiJ9"
ES256Header == "eyJhbGciOiJFUzI1NiJ9"

CompactHeaders == {"", "a", "A", "a+b", NoneHeader, HS256Header, ES256Header}
CompactPayloads == {"", "b", "e30"}
CompactSignatures == {"", "c", "signature", "sig="}
CompactTails == {"", ".d"}

Compact(header, payload, signature, tail) ==
    header \o "." \o payload \o "." \o signature \o tail

CompactStrings ==
    {Compact(h, p, g, t) :
        h \in CompactHeaders, p \in CompactPayloads, g \in CompactSignatures,
        t \in CompactTails}

SegmentChars(s) ==
    CASE s = "" -> <<>>
      [] s = "a" -> <<"a">>
      [] s = "A" -> <<"A">>
      [] s = "b" -> <<"b">>
      [] s = "c" -> <<"c">>
      [] s = ".d" -> <<".", "d">>
      [] s = "a+b" -> <<"a", "+", "b">>
      [] s = "e30" -> <<"e", "3", "0">>
      [] s = "sig=" -> <<"s", "i", "g", "=">>
      [] s = "signature" -> <<"s", "i", "g", "n", "a", "t", "u", "r", "e">>
      [] s = NoneHeader -> <<"e", "y", "J", "h", "b", "G", "c", "i", "O",
        "i", "J", "u", "b", "2", "5", "l", "I", "n", "0">>
      [] s = HS256Header -> <<"e", "y", "J", "h", "b", "G", "c", "i", "O",
        "i", "J", "I", "U", "z", "I", "1", "N", "i", "J", "9">>
      [] s = ES256Header -> <<"e", "y", "J", "h", "b", "G", "c", "i", "O",
        "i", "J", "F", "U", "z", "I", "1", "N", "i", "J", "9">>

CompactChars(s) ==
    LET parts == CHOOSE q \in CompactHeaders \X CompactPayloads \X CompactSignatures
                                 \X CompactTails :
                     Compact(q[1], q[2], q[3], q[4]) = s
    IN  SegmentChars(parts[1]) \o <<".">> \o SegmentChars(parts[2]) \o <<".">>
            \o SegmentChars(parts[3]) \o SegmentChars(parts[4])

Chars(s) ==
    CASE s = vcV1CoreContext -> <<"h", "t", "t", "p", "s", ":", "/", "/",
        "w", "w", "w", ".", "w", "3", ".", "o", "r", "g", "/", "2", "0",
        "1", "8", "/", "c", "r", "e", "d", "e", "n", "t", "i", "a", "l",
        "s", "/", "v", "1">>
      [] s = vcV2CoreContext -> <<"h", "t", "t", "p", "s", ":", "/", "/",
        "w", "w", "w", ".", "w", "3", ".", "o", "r", "g", "/", "n", "s",
        "/", "c", "r", "e", "d", "e", "n", "t", "i", "a", "l", "s", "/",
        "v", "2">>
      [] s = statusList2021Context -> <<"h", "t", "t", "p", "s", ":", "/",
        "/", "w", "3", "i", "d", ".", "o", "r", "g", "/", "v", "c", "/",
        "s", "t", "a", "t", "u", "s", "-", "l", "i", "s", "t", "/", "2",
        "0", "2", "1", "/", "v", "1">>
      [] s = bitstringStatusListContext -> <<"h", "t", "t", "p", "s", ":",
        "/", "/", "w", "w", "w", ".", "w", "3", ".", "o", "r", "g", "/",
        "n", "s", "/", "c", "r", "e", "d", "e", "n", "t", "i", "a", "l",
        "s", "/", "s", "t", "a", "t", "u", "s", "/", "v", "1">>
      [] s = CustomContext -> <<"h", "t", "t", "p", "s", ":", "/", "/",
        "e", "x", "a", "m", "p", "l", "e", ".", "c", "o", "m", "/", "c",
        "u", "s", "t", "o", "m", "-", "c", "o", "n", "t", "e", "x", "t",
        "/", "v", "1">>
      [] s = NotAUri -> <<"n", "o", "t", "-", "a", "-", "u", "r", "i">>
      [] s = SchemeOnly -> <<"u", "r", "n", ":">>
      [] s = DigitScheme -> <<"1", "a", "b", "c", ":", "d", "e", "f">>
      [] s = ExampleDid -> <<"d", "i", "d", ":", "e", "x", "a", "m", "p",
        "l", "e", ":", "1", "2", "3">>
      [] s = SampleTimestamp -> <<"2", "0", "2", "3", "-", "0", "1", "-",
        "0", "1", "T", "0", "0", ":", "0", "0", ":", "0", "0", "Z">>
      [] s = SampleEncodedList -> <<"H", "4", "s", "I", "A", "A", "A", "A",
        "A", "A", "A", "A", "A", "K", "t", "W", "y", "k", "1", "V", "s",
        "l", "I", "y", "N", "j", "P", "Q", "M", "7", "Q", "0", "1", "i",
        "v", "O", "V", "L", "I", "3", "0", "o", "s", "3", "A", "A", "A",
        "c", "z", "J", "J", "K", "N", "Q", "A", "A", "A", "A">>
      [] s = "" -> <<>>
      [] s = TestSignature -> <<"t", "e", "s", "t", "-", "s", "i", "g", "n",
        "a", "t", "u", "r", "e">>
      [] s = PaddedBase64 -> <<"d", "G", "V", "z", "d", "A", "=", "=">>
      [] s = NotBase64Url -> <<"n", "o", "t", " ", "b", "a", "s", "e", "6",
        "4", "u", "r", "l", "!">>
      [] s = "only.one" -> <<"o", "n", "l", "y", ".", "o", "n", "e">>
      [] s = BadDid -> <<"d", "i", "d", ":", "b", "a", "d", ":", "1", "2", "3">>
      [] s = "example" -> <<"e", "x", "a", "m", "p", "l", "e">>
      [] s = "bad" -> <<"b", "a", "d">>
      [] s \in CompactStrings -> CompactChars(s)

Letters ==
    {"a", "b", "c", "d", "e", "f", "g", "h", "i", "j", "k", "l", "m",
     "n", "o", "p", "q", "r", "s", "t", "u", "v", "w", "x", "y", "z",
     "A", "B", "C", "D", "E", "F", "G", "H", "I", "J", "K", "L", "M",
     "N", "O", "P", "Q", "R", "S", "T", "U", "V", "W", "X", "Y", "Z"}

Digits == {"0", "1", "2", "3", "4", "5", "6", "7", "8", "9"}

\* The pattern /^[a-zA-Z][a-zA-Z0-9+.-]*:.+/ on the characters of a string.
UriPattern(cs) ==
    /\ Len(cs) >= 1
    /\ cs[1] \in Letters
    /\ \E i \in 2..Len(cs) :
          /\ cs[i] = ":"
          /\ \A j \in 2..(i - 1) : cs[j] \in Letters \cup Digits \cup {"+", ".", "-"}
          /\ i + 1 <= Len(cs)
          /\ cs[i + 1] /= "\n"

\* UriSchema: a string matching the URI pattern.
UriSchema(x) == IF IsString(x) /\ UriPattern(Chars(x.v)) THEN Accept(x) ELSE Reject

(***************************************************************************)
(* JSON-LD context validator.                                              *)
(***************************************************************************)
\* contexts = Array.isArray(context) ? context : [context]
Contexts(context) == IF IsArray(context) THEN context.v ELSE <<context>>

\* Mutant: the record values restricted to the required literals.
ContextValue_literalsOnly(contexts, x) ==
    Union([i \in 1..Len(contexts) |-> Literal(contexts[i].v, x)])

\* z.union([...literals, UriSchema]) on one value of a record.
ContextValue(contexts, x) ==
    Union([i \in 1..Len(contexts) |-> Literal(contexts[i].v, x)] \o <<UriSchema(x)>>)

\* Mutant: the array option built on z.array(z.string()) instead of UriSchema.
ArrayContaining_anyString(contexts, x) ==
    IF /\ ArrayOfString(x).ok
       /\ \A i \in 1..Len(contexts) : Includes(x.v, contexts[i])
    THEN Accept(x) ELSE Reject

\* z.array(UriSchema).refine((arr) => contexts.every((ctx) => arr.includes(ctx)))
ArrayContaining(contexts, x) ==
    IF /\ IsArray(x)
       /\ \A i \in 1..Len(x.v) : UriSchema(x.v[i]).ok
       /\ \A i \in 1..Len(contexts) : Includes(x.v, contexts[i])
    THEN Accept(x) ELSE Reject

\* z.record(z.string(), valueSchema): a plain object all of whose values pass.
ZodRecord(contexts, x) ==
    IF IsObject(x) /\ \A k \in DOMAIN x.v : ContextValue(contexts, x.v[k]).ok
    THEN Accept(x) ELSE Reject

\* v.record(v.string(), valueSchema).  The schema tests `typeof input ===
\* "object"`, which an array passes too; whether the installed build lets an
\* array through as a record of its indices is not fixed by the repository,
\* so both outcomes are modelled (arrayIsObject).
ValibotRecord(contexts, x, arrayIsObject) ==
    IF IsObject(x)
    THEN IF \A k \in DOMAIN x.v : ContextValue(contexts, x.v[k]).ok
         THEN Accept(x) ELSE Reject
    ELSE IF /\ IsArray(x)
            /\ arrayIsObject
            /\ \A i \in 1..Len(x.v) : ContextValue(contexts, x.v[i]).ok
         THEN Accept(JObj([k \in {ToString(i - 1) : i \in 1..Len(x.v)} |->
                             x.v[CHOOSE i \in 1..Len(x.v) : ToString(i - 1) = k]]))
         ELSE Reject

\* Mutant: the single-string option offered whatever the number of contexts.
SingleString_always(contexts, x) ==
    IF Len(contexts) >= 1 THEN Literal(contexts[1].v, x) ELSE Reject

\* The single-string option: present only when exactly one context is required.
SingleString(contexts, x) ==
    IF Len(contexts) = 1 THEN Literal(contexts[1].v, x) ELSE Reject

\* zod jsonLdContextSchema(context).
zod_jsonLdContextSchema(context, x) ==
    Union(<<SingleString(Contexts(context), x),
            ArrayContaining(Contexts(context), x),
            ZodRecord(Contexts(context), x)>>)

\* valibot jsonLdContextSchema(context).
valibot_jsonLdContextSchema(context, x, arrayIsObject) ==
    Union(<<SingleString(Contexts(context), x),
            ArrayContaining(Contexts(context), x),
            ValibotRecord(Contexts(context), x, arrayIsObject)>>)

(***************************************************************************)
(* String patterns of the document schemas.                                *)
(***************************************************************************)
LowerCase ==
    {"a", "b", "c", "d", "e", "f", "g", "h", "i", "j", "k", "l", "m",
     "n", "o", "p", "q", "r", "s", "t", "u", "v", "w", "x", "y", "z"}

\* didRegex: /^did:[a-z0-9]+:[a-zA-Z0-9.\-_:%]*[a-zA-Z0-9.\-_]$/
DidPattern(cs) ==
    /\ Len(cs) >= 7
    /\ SubSeq(cs, 1, 4) = <<"d", "i", "d", ":">>
    /\ \E i \in 6..(Len(cs) - 1) :
          /\ cs[i] = ":"
          /\ \A j \in 5..(i - 1) : cs[j] \in LowerCase \cup Digits
          /\ \A j \in (i + 1)..Len(cs) :
                cs[j] \in Letters \cup Digits \cup {".", "-", "_", ":", "%"}
          /\ cs[Len(cs)] \notin {":", "%"}

\* DidSchema: a string matching didRegex.
DidSchema(x) == IF IsString(x) /\ DidPattern(Chars(x.v)) THEN Accept(x) ELSE Reject

JBool(b) == [t |-> "boolean", v |-> b]

\* String.prototype.startsWith on the characters of two strings.
StartsWith(cs, prefix) == Len(cs) >= Len(prefix) /\ SubSeq(cs, 1, Len(prefix)) = prefix

\* The characters `${value}` yields in a template literal.
TemplateChars(value) ==
    CASE IsString(value) -> Chars(value.v)
      [] value = JNum(42) -> <<"4", "2">>
      [] value = JNull -> <<"n", "u", "l", "l">>

\* `did:${method}:`
MethodPrefix(method) == <<"d", "i", "d", ":">> \o TemplateChars(method) \o <<":">>

\* zod createDidSchema(method): a string matching didRegex that starts with
\* `did:${method}:`.
zod_createDidSchema(method, x) ==
    IF /\ IsString(x)
       /\ DidPattern(Chars(x.v))
       /\ StartsWith(Chars(x.v), MethodPrefix(method))
    THEN Accept(x) ELSE Reject

\* valibot DidSchema: pipe(UriSchema, startsWith("did:"), regex(didRegex)).
valibot_DidSchema(x) ==
    IF /\ UriSchema(x).ok
       /\ StartsWith(Chars(x.v), <<"d", "i", "d", ":">>)
       /\ DidPattern(Chars(x.v))
    THEN Accept(x) ELSE Reject

\* valibot createDidSchema(method): pipe(DidSchema, startsWith(`did:${method}:`)).
valibot_createDidSchema(method, x) ==
    IF valibot_DidSchema(x).ok /\ StartsWith(Chars(x.v), MethodPrefix(method))
    THEN Accept(x) ELSE Reject

\* zod isDidWithMethod(value, method), called with the arguments (first, second).
zod_isDidWithMethod(first, second) ==
    LET value == first
        method == second
    IN  zod_createDidSchema(method, value).ok

\* valibot isDidWithMethod(method, value), called with the arguments (first, second).
valibot_isDidWithMethod(first, second) ==
    LET method == first
        value == second
    IN  valibot_createDidSchema(method, value).ok

\* Base64UrlSchema: a string matching /^[A-Za-z0-9_-]+$/.
\* Base64UrlSchema with the pattern /^[A-Za-z0-9_-]*$/: the empty string passes.
Base64UrlSchema_allowEmpty(x) ==
    IF /\ IsString(x)
       /\ \A i \in 1..Len(Chars(x.v)) : Chars(x.v)[i] \in Letters \cup Digits \cup {"_", "-"}
    THEN Accept(x) ELSE Reject

Base64UrlSchema(x) ==
    IF /\ IsString(x)
       /\ Len(Chars(x.v)) >= 1
       /\ \A i \in 1..Len(Chars(x.v)) : Chars(x.v)[i] \in Letters \cup Digits \cup {"_", "-"}
    THEN Accept(x) ELSE Reject

\* z.iso.datetime() with its default options: yyyy-mm-ddThh:mm:ss, an
\* optional fraction of a second, and the UTC designator Z.
IsoDateTimePattern(cs) ==
    /\ Len(cs) >= 20
    /\ \A i \in {1, 2, 3, 4, 6, 7, 9, 10, 12, 13, 15, 16, 18, 19} : cs[i] \in Digits
    /\ cs[5] = "-" /\ cs[8] = "-" /\ cs[11] = "T" /\ cs[14] = ":" /\ cs[17] = ":"
    /\ cs[Len(cs)] = "Z"
    /\ Len(cs) > 20 => /\ cs[20] = "."
                       /\ Len(cs) >= 22
                       /\ \A i \in 21..(Len(cs) - 1) : cs[i] \in Digits

IsoDateTime(x) == IF IsString(x) /\ IsoDateTimePattern(Chars(x.v)) THEN Accept(x) ELSE Reject

\* DateTimeStampSchema:
\* /^\d{4}-\d{2}-\d{2}T\d{2}:\d{2}:\d{2}(\.\d{3})?([+-]\d{2}:\d{2}|Z)$/
DateTimeStampPattern(cs) ==
    /\ Len(cs) >= 20
    /\ \A i \in {1, 2, 3, 4, 6, 7, 9, 10, 12, 13, 15, 16, 18, 19} : cs[i] \in Digits
    /\ cs[5] = "-" /\ cs[8] = "-" /\ cs[11] = "T" /\ cs[14] = ":" /\ cs[17] = ":"
    /\ LET fraction == IF cs[20] = "." THEN 4 ELSE 0
           zone == SubSeq(cs, 20 + fraction, Len(cs))
       IN  /\ fraction = 4 => /\ Len(cs) >= 24
                              /\ \A i \in 21..23 : cs[i] \in Digits
           /\ \/ zone = <<"Z">>
              \/ /\ Len(zone) = 6
                 /\ zone[1] \in {"+", "-"}
                 /\ zone[4] = ":"
                 /\ \A i \in {2, 3, 5, 6} : zone[i] \in Digits

DateTimeStampSchema(x) ==
    IF IsString(x) /\ DateTimeStampPattern(Chars(x.v)) THEN Accept(x) ELSE Reject

\* JwsStringSchema: /^[A-Za-z0-9_-]+\.[A-Za-z0-9_-]*\.[A-Za-z0-9_-]+$/
JwsPattern(cs) ==
    \E i, j \in 1..Len(cs) :
        /\ 1 < i /\ i < j /\ j < Len(cs)
        /\ cs[i] = "." /\ cs[j] = "."
        /\ \A k \in (1..Len(cs)) \ {i, j} : cs[k] \in Letters \cup Digits \cup {"_", "-"}

JwsStringSchema(x) == IF IsString(x) /\ JwsPattern(Chars(x.v)) THEN Accept(x) ELSE Reject

\* JwtStringSchema: /^[A-Za-z0-9_-]+\.[A-Za-z0-9_-]+\.[A-Za-z0-9_-]*$/
JwtStringPattern(cs) ==
    \E i, j \in 1..Len(cs) :
        /\ 1 < i /\ i + 1 < j
        /\ cs[i] = "." /\ cs[j] = "."
        /\ \A k \in (1..Len(cs)) \ {i, j} : cs[k] \in Letters \cup Digits \cup {"_", "-"}

\* The pattern with a non-empty third segment.
JwtStringSchema_signed(x) ==
    IF IsString(x) /\ JwtStringPattern(Chars(x.v)) /\ Chars(x.v)[Len(Chars(x.v))] /= "."
    THEN Accept(x) ELSE Reject

JwtStringSchema(x) == IF IsString(x) /\ JwtStringPattern(Chars(x.v)) THEN Accept(x) ELSE Reject

\* cs split at every ".", as String.prototype.split(".") does.
RECURSIVE Split(_)
Split(cs) ==
    IF \A i \in 1..Len(cs) : cs[i] /= "." THEN <<cs>>
    ELSE LET i == CHOOSE n \in 1..Len(cs) :
                      cs[n] = "." /\ \A m \in 1..(n - 1) : cs[m] /= "."
         IN  <<SubSeq(cs, 1, i - 1)>> \o Split(SubSeq(cs, i + 1, Len(cs)))

\* The string with the characters cs, for the segments of compact strings.
CompactSegments == CompactHeaders \cup CompactPayloads \cup CompactSignatures

StringOf(cs) == CHOOSE s \in CompactSegments : SegmentChars(s) = cs

\* An exception raised by a callback of a schema, which the validation call
\* does not catch: neither an accepted output nor a rejection.
Throw(message) == [ok |-> FALSE, value |-> [t |-> "exception", v |-> message]]

\* The transform of JwtStringPartsSchema on a string with the characters cs:
\* const [header, payload, signature] = jwt.split("."); throw if header or
\* payload is missing or empty; signature ?? "".
JwtStringPartsTransform(cs) ==
    LET parts == Split(cs)
        header == parts[1]
        payload == IF Len(parts) >= 2 THEN parts[2] ELSE <<>>
        signature == IF Len(parts) >= 3 THEN parts[3] ELSE <<>>
    IN  IF header = <<>> \/ payload = <<>>
        THEN Throw("Invalid JWT string")
        ELSE Accept(JObj([k \in {"header", "payload", "signature"} |->
                            CASE k = "header" -> JStr(StringOf(header))
                              [] k = "payload" -> JStr(StringOf(payload))
                              [] k = "signature" -> JStr(StringOf(signature))]))

\* JwtStringPartsSchema over the JWS pattern, whose middle segment may be empty.
JwtStringPartsSchema_jwsPattern(x) ==
    IF JwsStringSchema(x).ok THEN JwtStringPartsTransform(Chars(x.v)) ELSE Reject

\* JwtStringPartsSchema: JwtStringSchema, then the transform.
JwtStringPartsSchema(x) ==
    IF JwtStringSchema(x).ok THEN JwtStringPartsTransform(Chars(x.v)) ELSE Reject

\* DetachedJwsStringSchema: /^[A-Za-z0-9_-]+\.\.[A-Za-z0-9_-]+$/
DetachedJwsPattern(cs) ==
    \E i \in 1..Len(cs) :
        /\ 1 < i /\ i + 1 < Len(cs)
        /\ cs[i] = "." /\ cs[i + 1] = "."
        /\ \A k \in (1..Len(cs)) \ {i, i + 1} : cs[k] \in Letters \cup Digits \cup {"_", "-"}

DetachedJwsStringSchema(x) ==
    IF IsString(x) /\ DetachedJwsPattern(Chars(x.v)) THEN Accept(x) ELSE Reject

(***************************************************************************)
(* Object schemas.  An object schema has required and optional fields,     *)
(* each with a schema, and a policy for the keys it does not know:         *)
(* "strip" (z.object, v.object), "strict" (.strict(), v.strictObject) or   *)
(* "loose" (.loose(), v.looseObject).                                      *)
(***************************************************************************)
\* The keys an input carries, if it is an object.
Keys(x) == IF IsObject(x) THEN DOMAIN x.v ELSE {}

\* fields[k] is the result of the field schema of k on x[k], for every known
\* key that x carries.
Object(fields, required, optional, unknownKeys, x) ==
    IF ~IsObject(x) THEN Reject
    ELSE LET known == required \cup optional
             present == DOMAIN x.v
             kept == IF unknownKeys = "loose" THEN present ELSE present \cap known
         IN  IF /\ required \subseteq present
                /\ unknownKeys = "strict" => present \subseteq known
                /\ \A k \in present \cap known : fields[k].ok
             THEN Accept(JObj([k \in kept |->
                                 IF k \in known THEN fields[k].value ELSE x.v[k]]))
             ELSE Reject

\* z.array(schema), given the results of the element schema on the items.
ArrayOf(results) ==
    IF \A i \in DOMAIN results : results[i].ok
    THEN Accept(JArr([i \in DOMAIN results |-> results[i].value]))
    ELSE Reject

StringOrArrayOfString(x) == Union(<<String(x), ArrayOfString(x)>>)

StringOrNumber(x) == IF IsString(x) \/ x.t = "number" THEN Accept(x) ELSE Reject

\* IdOrObjectSchema: a URI, or an object with a URI id.
IdOrObjectSchema(x) ==
    Union(<<UriSchema(x),
            Object([k \in Keys(x) \cap {"id"} |-> UriSchema(x.v[k])], {"id"}, {}, "strip", x)>>)

\* CredentialStatusSchema.
CredentialStatusField(k, x) ==
    IF k = "statusListIndex" THEN StringOrNumber(x) ELSE String(x)

CredentialStatusKeys == {"id", "type", "statusListCredential", "statusListIndex", "statusPurpose"}

CredentialStatusSchema(x) ==
    Object([k \in Keys(x) \cap CredentialStatusKeys |-> CredentialStatusField(k, x.v[k])],
           {"type"}, CredentialStatusKeys \ {"type"}, "strip", x)

\* CredentialSchemaTypeSchema.
CredentialSchemaTypeField(k, x) == IF k = "id" THEN UriSchema(x) ELSE String(x)

CredentialSchemaTypeSchema(x) ==
    Object([k \in Keys(x) \cap {"id", "type"} |-> CredentialSchemaTypeField(k, x.v[k])],
           {"id", "type"}, {}, "strip", x)

\* GenericResourceSchema.
GenericResourceField(k, x) == IF k = "id" THEN String(x) ELSE StringOrArrayOfString(x)

GenericResourceSchema(x) ==
    Object([k \in Keys(x) \cap {"id", "type"} |-> GenericResourceField(k, x.v[k])],
           {"type"}, {"id"}, "strip", x)

\* The fields BaseCredentialSchema shares between its versions, apart from
\* type, credentialSubject and proof; each of the optional ones but id takes
\* one object or an array of them.
BaseCredentialField(k, x) ==
    CASE k = "id" -> UriSchema(x)
      [] k = "issuer" -> IdOrObjectSchema(x)
      [] k = "credentialStatus" ->
            IF IsArray(x)
            THEN ArrayOf([i \in 1..Len(x.v) |-> CredentialStatusSchema(x.v[i])])
            ELSE CredentialStatusSchema(x)
      [] k = "credentialSchema" ->
            IF IsArray(x)
            THEN ArrayOf([i \in 1..Len(x.v) |-> CredentialSchemaTypeSchema(x.v[i])])
            ELSE CredentialSchemaTypeSchema(x)
      [] k \in {"evidence", "refreshService", "termsOfUse"} ->
            IF IsArray(x)
            THEN ArrayOf([i \in 1..Len(x.v) |-> GenericResourceSchema(x.v[i])])
            ELSE GenericResourceSchema(x)

BaseCredentialOptional ==
    {"id", "credentialStatus", "credentialSchema", "evidence", "refreshService", "termsOfUse"}

\* ProofSchema.
ProofField(k, x) ==
    CASE k = "created" -> DateTimeStampSchema(x)
      [] k = "verificationMethod" -> UriSchema(x)
      [] k = "domain" -> StringOrArrayOfString(x)
      [] k = "jws" -> JwsStringSchema(x)
      [] OTHER -> String(x)

ProofRequired == {"type", "verificationMethod", "proofPurpose"}

ProofOptional ==
    {"created", "challenge", "domain", "nonce", "jws", "signatureValue", "proofValue"}

ProofSchema(x) ==
    Object([k \in Keys(x) \cap (ProofRequired \cup ProofOptional) |-> ProofField(k, x.v[k])],
           ProofRequired, ProofOptional, "strip", x)

\* z.union([ProofSchema, z.array(ProofSchema)])
OneOrManyProofs(x) ==
    IF IsArray(x) THEN ArrayOf([i \in 1..Len(x.v) |-> ProofSchema(x.v[i])]) ELSE ProofSchema(x)

(***************************************************************************)
(* Status-list credential schemas.                                         *)
(***************************************************************************)
statusPurposes == {"revocation", "suspension"}

\* StatusList2021CredentialSubjectSchema / BitstringStatusListCredentialSubjectSchema.
StatusListSubjectField(typeLiteral, k, x) ==
    CASE k = "id" -> DidSchema(x)
      [] k = "type" -> Literal(typeLiteral, x)
      [] k = "statusPurpose" ->
            IF IsString(x) /\ x.v \in statusPurposes THEN Accept(x) ELSE Reject
      [] k = "encodedList" -> Base64UrlSchema(x)
      [] k = "ttl" -> IF x.t = "number" THEN Accept(x) ELSE Reject

StatusListSubjectRequired == {"type", "statusPurpose", "encodedList"}

StatusList2021CredentialSubjectSchema(x) ==
    Object([k \in Keys(x) \cap (StatusListSubjectRequired \cup {"id"}) |->
               StatusListSubjectField("StatusList2021", k, x.v[k])],
           StatusListSubjectRequired, {"id"}, "strip", x)

BitstringStatusListCredentialSubjectSchema(x) ==
    Object([k \in Keys(x) \cap (StatusListSubjectRequired \cup {"id", "ttl"}) |->
               StatusListSubjectField("BitstringStatusList", k, x.v[k])],
           StatusListSubjectRequired, {"id", "ttl"}, "strip", x)

\* VcV1ContextSchema (the same in both libraries) and the zod VcV2ContextSchema:
\* the core context literal, or a non-empty array of strings that includes it.
VcVersionContextSchema(core, x) ==
    Union(<<Literal(core, x),
            IF ArrayOfString(x).ok /\ Len(x.v) >= 1 /\ Includes(x.v, JStr(core))
            THEN Accept(x) ELSE Reject>>)

VcV1ContextSchema(x) == VcVersionContextSchema(vcV1CoreContext, x)

VcV2ContextSchema(x) == VcVersionContextSchema(vcV2CoreContext, x)

\* VcContextSchema: union([VcV1ContextSchema, VcV2ContextSchema]).
VcContextSchema(x) == Union(<<VcV1ContextSchema(x), VcV2ContextSchema(x)>>)

\* valibot VcV2ContextSchema: the core context literal, or
\* tupleWithRest([core literal], string) checked to include the core context:
\* the first item is the core context and the others are strings.
valibot_VcV2ContextSchema(x) ==
    Union(<<Literal(vcV2CoreContext, x),
            IF /\ ZodTupleRestString(<<JStr(vcV2CoreContext)>>, x).ok
               /\ Includes(x.v, JStr(vcV2CoreContext))
            THEN Accept(x) ELSE Reject>>)

\* valibot VcContextSchema: union([VcV1ContextSchema, VcV2ContextSchema]).
valibot_VcContextSchema(x) == Union(<<VcV1ContextSchema(x), valibot_VcV2ContextSchema(x)>>)

\* Mutant: the joint context as the tuple alone.
zod_StatusListContextSchema_tupleOnly(core, extension, x) ==
    ZodTuple(<<JStr(core), JStr(extension)>>, x)

\* zod StatusList2021CredentialContextSchema / BitstringStatusListCredentialContextSchema:
\* the tuple of the two contexts, or a non-empty string array holding both.
zod_StatusListContextSchema(core, extension, x) ==
    Union(<<ZodTuple(<<JStr(core), JStr(extension)>>, x),
            IF /\ ArrayOfString(x).ok
               /\ Len(x.v) >= 1
               /\ Includes(x.v, JStr(core))
               /\ Includes(x.v, JStr(extension))
            THEN Accept(x) ELSE Reject>>)

\* zod StatusList2021CredentialSchema: BaseCredentialSchema.extend({...}).strict();
\* type stays the base's credentialTypeSchema().
zod_StatusList2021Field(k, x) ==
    CASE k = "@context" -> zod_StatusListContextSchema(vcV1CoreContext, statusList2021Context, x)
      [] k = "type" -> zod_credentialTypeSchema(Undefined, x)
      [] k \in {"issuanceDate", "expirationDate"} -> IsoDateTime(x)
      [] k = "credentialSubject" -> StatusList2021CredentialSubjectSchema(x)
      [] k = "proof" -> OneOrManyProofs(x)
      [] OTHER -> BaseCredentialField(k, x)

zod_StatusList2021Required ==
    {"@context", "type", "issuer", "issuanceDate", "credentialSubject"}

zod_StatusList2021Optional == BaseCredentialOptional \cup {"expirationDate", "proof"}

zod_StatusList2021CredentialSchema(x) ==
    Object([k \in Keys(x) \cap (zod_StatusList2021Required \cup zod_StatusList2021Optional) |->
               zod_StatusList2021Field(k, x.v[k])],
           zod_StatusList2021Required, zod_StatusList2021Optional, "strict", x)

\* zod BitstringStatusListCredentialSchema: BaseCredentialSchema.extend({...}).strict();
\* type and proof stay the base's.
zod_BitstringStatusListField(k, x) ==
    CASE k = "@context" ->
            zod_StatusListContextSchema(vcV2CoreContext, bitstringStatusListContext, x)
      [] k = "type" -> zod_credentialTypeSchema_tuple(Undefined, x)
      [] k \in {"validFrom", "validUntil"} -> IsoDateTime(x)
      [] k = "credentialSubject" -> BitstringStatusListCredentialSubjectSchema(x)
      [] k = "proof" -> OneOrManyProofs(x)
      [] OTHER -> BaseCredentialField(k, x)

zod_BitstringStatusListRequired == {"@context", "type", "issuer", "credentialSubject"}

zod_BitstringStatusListOptional ==
    BaseCredentialOptional \cup {"validFrom", "validUntil", "proof"}

zod_BitstringStatusListCredentialSchema(x) ==
    Object([k \in Keys(x) \cap (zod_BitstringStatusListRequired
                                    \cup zod_BitstringStatusListOptional) |->
               zod_BitstringStatusListField(k, x.v[k])],
           zod_BitstringStatusListRequired, zod_BitstringStatusListOptional, "strict", x)

(***************************************************************************)
(* Credential schemas, V1 and V2.                                          *)
(***************************************************************************)
\* Mutant: the subject schema as a closed-shape object that drops unknown keys.
CredentialSubjectSchema_strip(x) ==
    Object([k \in Keys(x) \cap {"id"} |-> String(x.v[k])], {}, {"id"}, "strip", x)

\* CredentialSubjectSchema: an open object whose optional id is
\* union([UriSchema, string]), that is any string.
CredentialSubjectSchema(x) ==
    Object([k \in Keys(x) \cap {"id"} |-> String(x.v[k])], {}, {"id"}, "loose", x)

\* union([credentialSubjectSchema, array(credentialSubjectSchema)])
OneOrManySubjects(x) ==
    IF IsArray(x)
    THEN ArrayOf([i \in 1..Len(x.v) |-> CredentialSubjectSchema(x.v[i])])
    ELSE CredentialSubjectSchema(x)

\* contextSchema ? [core, ...[contextSchema].flat()] : core
VersionContexts(core, contextSchema) ==
    IF Truthy(contextSchema)
    THEN JArr(<<JStr(core)>> \o Flat(<<contextSchema>>))
    ELSE JStr(core)

\* zod V1 "@context": contextSchema ? jsonLdContextSchema(contextSchema)
\*                     : union([VcV1ContextSchema, array(VcV1ContextSchema)])
zod_V1CredentialContext(contextSchema, x) ==
    IF Truthy(contextSchema)
    THEN zod_jsonLdContextSchema(contextSchema, x)
    ELSE Union(<<VcV1ContextSchema(x),
                 IF IsArray(x)
                 THEN ArrayOf([i \in 1..Len(x.v) |-> VcV1ContextSchema(x.v[i])])
                 ELSE Reject>>)

CredentialV1Required == {"@context", "type", "issuer", "issuanceDate", "credentialSubject"}

CredentialV1Optional == BaseCredentialOptional \cup {"expirationDate"}

CredentialV2Required == {"@context", "type", "issuer", "credentialSubject"}

CredentialV2Optional == BaseCredentialOptional \cup {"validFrom", "validUntil"}

\* The fields of the zod credential schemas.
zod_CredentialField(version, contextSchema, k, x) ==
    CASE k = "@context" ->
            IF version = 1
            THEN zod_V1CredentialContext(contextSchema, x)
            ELSE zod_jsonLdContextSchema(VersionContexts(vcV2CoreContext, contextSchema), x)
      [] k = "type" -> zod_credentialTypeSchema(Undefined, x)
      [] k \in {"issuanceDate", "expirationDate", "validFrom", "validUntil"} -> IsoDateTime(x)
      [] k = "credentialSubject" -> OneOrManySubjects(x)
      [] k = "proof" -> OneOrManyProofs(x)
      [] OTHER -> BaseCredentialField(k, x)

\* zod createCredentialV1Schema: BaseCredentialSchema.extend({...}).strict()
zod_createCredentialV1Schema(contextSchema, x) ==
    Object([k \in Keys(x) \cap (CredentialV1Required \cup CredentialV1Optional) |->
               zod_CredentialField(1, contextSchema, k, x.v[k])],
           CredentialV1Required, CredentialV1Optional, "strict", x)

\* zod createVerifiableCredentialV1Schema: the same with an optional proof.
zod_createVerifiableCredentialV1Schema(contextSchema, x) ==
    Object([k \in Keys(x) \cap (CredentialV1Required \cup CredentialV1Optional \cup {"proof"}) |->
               zod_CredentialField(1, contextSchema, k, x.v[k])],
           CredentialV1Required, CredentialV1Optional \cup {"proof"}, "strict", x)

\* zod createSignedVerifiableCredentialV1Schema: makeVerifiable(createCredentialV1Schema(...)),
\* makeVerifiable being schema.extend({proof: ...}).loose().
zod_createSignedVerifiableCredentialV1Schema(contextSchema, x) ==
    Object([k \in Keys(x) \cap (CredentialV1Required \cup CredentialV1Optional \cup {"proof"}) |->
               zod_CredentialField(1, contextSchema, k, x.v[k])],
           CredentialV1Required \cup {"proof"}, CredentialV1Optional, "loose", x)

\* zod createCredentialV2Schema: BaseCredentialSchema.extend({...}).strict()
zod_createCredentialV2Schema(contextSchema, x) ==
    Object([k \in Keys(x) \cap (CredentialV2Required \cup CredentialV2Optional) |->
               zod_CredentialField(2, contextSchema, k, x.v[k])],
           CredentialV2Required, CredentialV2Optional, "strict", x)

\* zod createVerifiableCredentialV2Schema: makeVerifiable(createCredentialV2Schema(...)).
zod_createVerifiableCredentialV2Schema(contextSchema, x) ==
    Object([k \in Keys(x) \cap (CredentialV2Required \cup CredentialV2Optional \cup {"proof"}) |->
               zod_CredentialField(2, contextSchema, k, x.v[k])],
           CredentialV2Required \cup {"proof"}, CredentialV2Optional, "loose", x)

\* zod createCredentialSchema: union([V1, V2]); no contextSchema is passed on.
zod_createCredentialSchema(x) ==
    Union(<<zod_createCredentialV1Schema(Undefined, x),
            zod_createCredentialV2Schema(Undefined, x)>>)

\* Mutant: the combined schema with its V1 option alone.
zod_createVerifiableCredentialSchema_v1Only(x) ==
    zod_createVerifiableCredentialV1Schema(Undefined, x)

\* zod createVerifiableCredentialSchema: union([V1, V2]).
zod_createVerifiableCredentialSchema(x) ==
    Union(<<zod_createVerifiableCredentialV1Schema(Undefined, x),
            zod_createVerifiableCredentialV2Schema(Undefined, x)>>)

\* The fields of the valibot credential schemas.
valibot_CredentialField(version, contextSchema, arrayIsObject, k, x) ==
    CASE k = "@context" ->
            valibot_jsonLdContextSchema(
                VersionContexts(IF version = 1 THEN vcV1CoreContext ELSE vcV2CoreContext,
                                contextSchema),
                x, arrayIsObject)
      [] k = "type" -> valibot_credentialTypeSchema(Undefined, x)
      [] k \in {"issuanceDate", "expirationDate", "validFrom", "validUntil"} -> IsoDateTime(x)
      [] k = "credentialSubject" -> OneOrManySubjects(x)
      [] k = "proof" -> OneOrManyProofs(x)
      [] OTHER -> BaseCredentialField(k, x)

\* valibot createCredentialV1Schema: looseObject({...BaseCredentialSchema.entries, ...})
valibot_createCredentialV1Schema(contextSchema, arrayIsObject, x) ==
    Object([k \in Keys(x) \cap (CredentialV1Required \cup CredentialV1Optional) |->
               valibot_CredentialField(1, contextSchema, arrayIsObject, k, x.v[k])],
           CredentialV1Required, CredentialV1Optional, "loose", x)

\* valibot createVerifiableCredentialV1Schema: makeVerifiable(createCredentialV1Schema(...)),
\* makeVerifiable being looseObject({...schema.entries, proof: ...}).
valibot_createVerifiableCredentialV1Schema(contextSchema, arrayIsObject, x) ==
    Object([k \in Keys(x) \cap (CredentialV1Required \cup CredentialV1Optional \cup {"proof"}) |->
               valibot_CredentialField(1, contextSchema, arrayIsObject, k, x.v[k])],
           CredentialV1Required \cup {"proof"}, CredentialV1Optional, "loose", x)

\* valibot createCredentialV2Schema: looseObject({...BaseCredentialSchema.entries, ...})
valibot_createCredentialV2Schema(contextSchema, arrayIsObject, x) ==
    Object([k \in Keys(x) \cap (CredentialV2Required \cup CredentialV2Optional) |->
               valibot_CredentialField(2, contextSchema, arrayIsObject, k, x.v[k])],
           CredentialV2Required, CredentialV2Optional, "loose", x)

\* valibot createVerifiableCredentialV2Schema: makeVerifiable(createCredentialV2Schema(...)).
valibot_createVerifiableCredentialV2Schema(contextSchema, arrayIsObject, x) ==
    Object([k \in Keys(x) \cap (CredentialV2Required \cup CredentialV2Optional \cup {"proof"}) |->
               valibot_CredentialField(2, contextSchema, arrayIsObject, k, x.v[k])],
           CredentialV2Required \cup {"proof"}, CredentialV2Optional, "loose", x)

\* valibot createCredentialSchema: union([V1, V2]).
valibot_createCredentialSchema(contextSchema, arrayIsObject, x) ==
    Union(<<valibot_createCredentialV1Schema(contextSchema, arrayIsObject, x),
            valibot_createCredentialV2Schema(contextSchema, arrayIsObject, x)>>)

\* valibot createVerifiableCredentialSchema: union([V1, V2]).
valibot_createVerifiableCredentialSchema(contextSchema, arrayIsObject, x) ==
    Union(<<valibot_createVerifiableCredentialV1Schema(contextSchema, arrayIsObject, x),
            valibot_createVerifiableCredentialV2Schema(contextSchema, arrayIsObject, x)>>)

(***************************************************************************)
(* Presentation schemas.                                                   *)
(***************************************************************************)
\* union([VcContextSchema, array(VcContextSchema)])
PresentationContext(x) ==
    Union(<<VcContextSchema(x),
            IF IsArray(x)
            THEN ArrayOf([i \in 1..Len(x.v) |-> VcContextSchema(x.v[i])])
            ELSE Reject>>)

PresentationOptional == {"id", "holder", "verifiableCredential"}

\* zod VerifiablePresentationSchema: z.object({...}) with an optional proof.
zod_VerifiablePresentationField(k, x) ==
    CASE k = "@context" -> PresentationContext(x)
      [] k = "id" -> String(x)
      [] k = "type" -> zod_presentationTypeSchema(Undefined, x)
      [] k = "holder" -> DidSchema(x)
      [] k = "verifiableCredential" ->
            IF IsArray(x)
            THEN ArrayOf([i \in 1..Len(x.v) |-> zod_createVerifiableCredentialSchema(x.v[i])])
            ELSE zod_createVerifiableCredentialSchema(x)
      [] k = "proof" -> OneOrManyProofs(x)

zod_VerifiablePresentationSchema(x) ==
    Object([k \in Keys(x) \cap ({"@context", "type", "proof"} \cup PresentationOptional) |->
               zod_VerifiablePresentationField(k, x.v[k])],
           {"@context", "type"}, PresentationOptional \cup {"proof"}, "strip", x)

\* valibot: union([VcContextSchema, array(VcContextSchema)])
valibot_PresentationContext(x) ==
    Union(<<valibot_VcContextSchema(x),
            IF IsArray(x)
            THEN ArrayOf([i \in 1..Len(x.v) |-> valibot_VcContextSchema(x.v[i])])
            ELSE Reject>>)

\* The fields of the valibot presentation schemas; the credentials are
\* W3CCredentialSchema (unsigned) or VerifiableCredentialSchema.
valibot_PresentationField(credentials, arrayIsObject, k, x) ==
    CASE k = "@context" -> valibot_PresentationContext(x)
      [] k = "id" -> String(x)
      [] k = "type" -> valibot_vpTypeSchema(Undefined, x)
      [] k = "holder" -> DidSchema(x)
      [] k = "verifiableCredential" ->
            IF credentials = "W3CCredentialSchema"
            THEN IF IsArray(x)
                 THEN ArrayOf([i \in 1..Len(x.v) |->
                                  valibot_createCredentialSchema(Undefined, arrayIsObject, x.v[i])])
                 ELSE valibot_createCredentialSchema(Undefined, arrayIsObject, x)
            ELSE IF IsArray(x)
                 THEN ArrayOf([i \in 1..Len(x.v) |->
                                  valibot_createVerifiableCredentialSchema(
                                      Undefined, arrayIsObject, x.v[i])])
                 ELSE valibot_createVerifiableCredentialSchema(Undefined, arrayIsObject, x)
      [] k = "proof" -> OneOrManyProofs(x)

\* valibot PresentationSchema: v.object({...}) without a proof field.
valibot_PresentationSchema(arrayIsObject, x) ==
    Object([k \in Keys(x) \cap ({"@context", "type"} \cup PresentationOptional) |->
               valibot_PresentationField("W3CCredentialSchema", arrayIsObject, k, x.v[k])],
           {"@context", "type"}, PresentationOptional, "strip", x)

\* valibot VerifiablePresentationSchema: v.object({...PresentationSchema.entries, proof}).
valibot_VerifiablePresentationSchema(arrayIsObject, x) ==
    Object([k \in Keys(x) \cap ({"@context", "type", "proof"} \cup PresentationOptional) |->
               valibot_PresentationField("W3CCredentialSchema", arrayIsObject, k, x.v[k])],
           {"@context", "type", "proof"}, PresentationOptional, "strip", x)

\* valibot VerifiablePresentationSchema, the version with an optional proof.
valibot_VerifiablePresentationSchema_optionalProof(arrayIsObject, x) ==
    Object([k \in Keys(x) \cap ({"@context", "type", "proof"} \cup PresentationOptional) |->
               valibot_PresentationField("VerifiableCredentialSchema", arrayIsObject, k, x.v[k])],
           {"@context", "type"}, PresentationOptional \cup {"proof"}, "strip", x)

(***************************************************************************)
(* JSON Web Tokens.  The header fields jku, x5u, jwk and x5c are optional  *)
(* and absent from every header explored; their schemas are not modelled.  *)
(***************************************************************************)
joseSignatureAlgorithms ==
    {"HS256", "HS384", "HS512", "RS256", "RS384", "RS512", "ES256", "ES256K",
     "ES384", "ES512", "PS256", "PS384", "PS512", "EdDSA"}

joseUnsecuredAlgorithm == "none"

\* z.enum(joseSignatureAlgorithms) / v.picklist(joseSignatureAlgorithms)
JoseSignatureAlgorithmSchema(x) ==
    IF IsString(x) /\ x.v \in joseSignatureAlgorithms THEN Accept(x) ELSE Reject

JoseUnsecuredAlgorithmSchema(x) == Literal(joseUnsecuredAlgorithm, x)

\* A number that is an integer and at least 0.
UnixTimestampSchema(x) ==
    IF x.t = "number" /\ x.v \in Int /\ x.v >= 0 THEN Accept(x) ELSE Reject

JwtHeaderBaseKeys == {"typ", "cty", "kid", "x5t", "x5t#S256", "crit"}

\* The header fields; `alg` is the algorithm schema of the header variant.
JwtHeaderField(alg, k, x) ==
    CASE k = "alg" -> IF alg = "unsecured" THEN JoseUnsecuredAlgorithmSchema(x)
                      ELSE JoseSignatureAlgorithmSchema(x)
      [] k = "typ" -> Literal("JWT", x)
      [] k \in {"cty", "kid"} -> String(x)
      [] k \in {"x5t", "x5t#S256"} -> Base64UrlSchema(x)
      [] k = "crit" -> ArrayOfString(x)

JwtHeaderBaseSchema(x) ==
    Object([k \in Keys(x) \cap JwtHeaderBaseKeys |-> JwtHeaderField("none", k, x.v[k])],
           {}, JwtHeaderBaseKeys, "strip", x)

JwtHeaderUnsecuredSchema(x) ==
    Object([k \in Keys(x) \cap (JwtHeaderBaseKeys \cup {"alg"}) |->
               JwtHeaderField("unsecured", k, x.v[k])],
           {"alg"}, JwtHeaderBaseKeys, "strip", x)

JwtHeaderSignedSchema(x) ==
    Object([k \in Keys(x) \cap (JwtHeaderBaseKeys \cup {"alg"}) |->
               JwtHeaderField("signed", k, x.v[k])],
           {"alg"}, JwtHeaderBaseKeys, "strip", x)

JwtPayloadKeys == {"iss", "sub", "aud", "exp", "nbf", "iat", "jti"}

JwtPayloadField(k, x) ==
    CASE k \in {"iss", "sub", "jti"} -> String(x)
      [] k = "aud" -> StringOrArrayOfString(x)
      [] k \in {"exp", "nbf", "iat"} -> UnixTimestampSchema(x)

\* Additional claims are allowed and kept.
JwtPayloadSchema(x) ==
    Object([k \in Keys(x) \cap JwtPayloadKeys |-> JwtPayloadField(k, x.v[k])],
           {}, JwtPayloadKeys, "loose", x)

JwtObjectKeys == {"header", "payload", "signature"}

JwtObjectUnsecuredField(k, x) ==
    CASE k = "header" -> JwtHeaderUnsecuredSchema(x)
      [] k = "payload" -> JwtPayloadSchema(x)
      [] k = "signature" -> Literal("", x)

JwtObjectUnsecuredSchema(x) ==
    Object([k \in Keys(x) \cap JwtObjectKeys |-> JwtObjectUnsecuredField(k, x.v[k])],
           JwtObjectKeys, {}, "strip", x)

JwtObjectSignedField(k, x) ==
    CASE k = "header" -> JwtHeaderSignedSchema(x)
      [] k = "payload" -> JwtPayloadSchema(x)
      [] k = "signature" -> Base64UrlSchema(x)

JwtObjectSignedSchema(x) ==
    Object([k \in Keys(x) \cap JwtObjectKeys |-> JwtObjectSignedField(k, x.v[k])],
           JwtObjectKeys, {}, "strip", x)

\* union([JwtObjectUnsecuredSchema, JwtObjectSignedSchema])
JwtObjectSchema(x) == Union(<<JwtObjectUnsecuredSchema(x), JwtObjectSignedSchema(x)>>)

(***************************************************************************)
(* Inputs explored.                                                        *)
(***************************************************************************)
SeqsUpTo(S, n) == UNION {[1..k -> S] : k \in 0..n}

TypeStrings ==
    {VcTypeLiteral, VpTypeLiteral, "UniversityDegreeCredential", "StatusList2021Credential"}

\* Tags a caller declares as additional required types.
DeclaredTags == {"UniversityDegreeCredential", "StatusList2021Credential"}

TypeItems == {JStr(s) : s \in TypeStrings} \cup {JNum(42)}

TypeInputs ==
    {JStr(s) : s \in TypeStrings \cup {"InvalidType", ""}}
      \cup {JNum(42), JNull, JObj(<<>>)}
      \cup {JArr(a) : a \in SeqsUpTo(TypeItems, MaxTypes)}

\* The additionalTypes / types argument: omitted, one string, or a list.
TypeArgs ==
    {Undefined}
      \cup {JStr(s) : s \in DeclaredTags}
      \cup {JArr(a) : a \in {b \in SeqsUpTo({JStr(s) : s \in DeclaredTags}, MaxDeclared) :
                                  \A i, j \in 1..Len(b) : b[i] = b[j] => i = j}}

\* URIs a caller mandates.
MandatedUris == {vcV1CoreContext, vcV2CoreContext, statusList2021Context}

ContextItems ==
    {JStr(c) : c \in MandatedUris \cup {CustomContext, NotAUri}}
      \cup {JNum(42), JObj(<<>>)}

ContextKeys == {"@vocab", "ex"}

ContextValues == {JStr(vcV1CoreContext), JStr(CustomContext), JStr(NotAUri), JStr(SchemeOnly), JNum(42)}

ContextInputs ==
    {JStr(c) : c \in MandatedUris \cup {CustomContext, NotAUri, SchemeOnly, DigitScheme}}
      \cup {JNum(42), JNull}
      \cup {JArr(a) : a \in SeqsUpTo(ContextItems, MaxContexts)}
      \cup {JObj(m) : m \in UNION {[K -> ContextValues] : K \in SUBSET ContextKeys}}

\* The context argument: one URI, or a non-empty list of distinct URIs.
ContextArgs ==
    {JStr(c) : c \in MandatedUris}
      \cup {JArr(a) : a \in {b \in SeqsUpTo({JStr(c) : c \in MandatedUris}, MaxMandated) :
                                  /\ Len(b) >= 1
                                  /\ \A i, j \in 1..Len(b) : b[i] = b[j] => i = j}}

\* Credential documents: every choice of the fields below.
StatusList2021Subject ==
    JObj([k \in {"id", "type", "statusPurpose", "encodedList"} |->
            CASE k = "id" -> JStr(ExampleDid)
              [] k = "type" -> JStr("StatusList2021")
              [] k = "statusPurpose" -> JStr("revocation")
              [] k = "encodedList" -> JStr(SampleEncodedList)])

BitstringStatusListSubject ==
    JObj([k \in {"type", "statusPurpose", "encodedList"} |->
            CASE k = "type" -> JStr("BitstringStatusList")
              [] k = "statusPurpose" -> JStr("suspension")
              [] k = "encodedList" -> JStr(SampleEncodedList)])

SampleProof ==
    JObj([k \in {"type", "created", "verificationMethod", "proofPurpose"} |->
            CASE k = "type" -> JStr("Ed25519Signature2020")
              [] k = "created" -> JStr(SampleTimestamp)
              [] k = "verificationMethod" -> JStr(ExampleDid)
              [] k = "proofPurpose" -> JStr("assertionMethod")])

DocumentContexts ==
    {JArr(<<JStr(vcV1CoreContext), JStr(statusList2021Context)>>),
     JArr(<<JStr(vcV2CoreContext), JStr(bitstringStatusListContext)>>),
     JArr(<<JStr(vcV1CoreContext)>>)}

DocumentTypes ==
    {JStr(VcTypeLiteral),
     JArr(<<JStr(VcTypeLiteral)>>),
     JArr(<<JStr(VcTypeLiteral), JStr("StatusList2021Credential")>>),
     JArr(<<JStr(VcTypeLiteral), JStr("BitstringStatusListCredential")>>),
     JArr(<<JStr(VcTypeLiteral), JStr("StatusList2021Credential"),
            JStr("UniversityDegreeCredential")>>),
     JArr(<<JStr(VcTypeLiteral), JStr("BitstringStatusListCredential"),
            JStr("UniversityDegreeCredential")>>),
     JArr(<<JStr("StatusList2021Credential"), JStr(VcTypeLiteral)>>),
     JArr(<<JStr("StatusList2021Credential")>>)}

DocumentOptionalKeys == {"issuer", "issuanceDate", "validFrom", "proof", "unknownProperty"}

Document(context, type, subject, keys) ==
    JObj([k \in {"@context", "type", "credentialSubject"} \cup keys |->
            CASE k = "@context" -> context
              [] k = "type" -> type
              [] k = "credentialSubject" -> subject
              [] k = "issuer" -> JStr(ExampleDid)
              [] k \in {"issuanceDate", "validFrom"} -> JStr(SampleTimestamp)
              [] k = "proof" -> SampleProof
              [] k = "unknownProperty" -> JStr("value")])

Documents ==
    {Document(c, t, s, keys) :
        c \in DocumentContexts, t \in DocumentTypes,
        s \in {StatusList2021Subject, BitstringStatusListSubject},
        keys \in SUBSET DocumentOptionalKeys}

\* Credentials: every choice of the fields below; the schema factories take
\* the contextSchema argument, omitted or some additional context.
CredentialContexts ==
    {JStr(vcV1CoreContext),
     JStr(vcV2CoreContext),
     JArr(<<JStr(vcV1CoreContext), JStr(vcV2CoreContext)>>),
     JArr(<<JStr(vcV1CoreContext), JStr(CustomContext)>>),
     JArr(<<JStr(CustomContext)>>),
     JArr(<<>>),
     JArr(<<JArr(<<JStr(vcV1CoreContext)>>)>>),
     JObj([k \in {"ex"} |-> JStr(CustomContext)])}

CredentialTypes ==
    {JStr(VcTypeLiteral), JArr(<<JStr(VcTypeLiteral), JStr("UniversityDegreeCredential")>>)}

CredentialSubjects ==
    {JObj(<<>>),
     JObj([k \in {"id", "name"} |-> IF k = "id" THEN JStr(ExampleDid) ELSE JStr("Alice")])}

\* No proof field, one proof, an empty array of proofs, a proof lacking its fields.
CredentialProofs == {Undefined, SampleProof, JArr(<<>>), JObj(<<>>)}

CredentialOptionalKeys == {"issuanceDate", "validFrom", "unknownProperty"}

Credential(context, type, subject, proof, keys) ==
    JObj([k \in {"@context", "type", "issuer", "credentialSubject"} \cup keys
                  \cup (IF proof.t = "undefined" THEN {} ELSE {"proof"}) |->
            CASE k = "@context" -> context
              [] k = "type" -> type
              [] k = "issuer" -> JStr(ExampleDid)
              [] k = "credentialSubject" -> subject
              [] k \in {"issuanceDate", "validFrom"} -> JStr(SampleTimestamp)
              [] k = "proof" -> proof
              [] k = "unknownProperty" -> JStr("value")])

Credentials ==
    {Credential(c, t, s, p, keys) :
        c \in CredentialContexts, t \in CredentialTypes, s \in CredentialSubjects,
        p \in CredentialProofs, keys \in SUBSET CredentialOptionalKeys}

ContextSchemaArgs == {Undefined, JStr(CustomContext), JArr(<<JStr(CustomContext)>>)}

\* Presentations: every choice of the fields below.
MinimalCredential ==
    Credential(JStr(vcV1CoreContext), JStr(VcTypeLiteral), JObj(<<>>), Undefined,
               {"issuanceDate"})

PresentationContexts ==
    {JStr(vcV1CoreContext),
     JArr(<<JStr(vcV1CoreContext), JStr(CustomContext)>>),
     JStr(CustomContext)}

PresentationTypes ==
    {JStr(VpTypeLiteral),
     JArr(<<JStr(VpTypeLiteral), JStr("UniversityDegreeCredential")>>),
     JStr(VcTypeLiteral)}

PresentationCredentials ==
    {Undefined, MinimalCredential, JArr(<<MinimalCredential>>), JStr("not-an-array-or-object")}

Presentation(context, type, credentials, proof, keys) ==
    JObj([k \in {"@context", "type"} \cup keys
                  \cup (IF credentials.t = "undefined" THEN {} ELSE {"verifiableCredential"})
                  \cup (IF proof.t = "undefined" THEN {} ELSE {"proof"}) |->
            CASE k = "@context" -> context
              [] k = "type" -> type
              [] k = "verifiableCredential" -> credentials
              [] k = "proof" -> proof
              [] k = "holder" -> JStr(ExampleDid)
              [] k = "unknownProperty" -> JStr("value")])

Presentations ==
    {Presentation(c, t, vc, p, keys) :
        c \in PresentationContexts, t \in PresentationTypes,
        vc \in PresentationCredentials, p \in {Undefined, SampleProof},
        keys \in SUBSET {"holder", "unknownProperty"}}

\* JWT objects: every choice of algorithm, header fields, payload and signature.
JwtAlgorithms ==
    {Undefined, JStr("none"), JStr("HS256"), JStr("ES256K"), JStr("EdDSA"), JStr("HS999"),
     JNum(256)}

JwtHeader(alg, typ, keys) ==
    JObj([k \in keys \cup (IF alg.t = "undefined" THEN {} ELSE {"alg"})
                     \cup (IF typ.t = "undefined" THEN {} ELSE {"typ"}) |->
            CASE k = "alg" -> alg
              [] k = "typ" -> typ
              [] k = "kid" -> JStr("key-1")
              [] k = "unknownHeader" -> JStr("value")])

JwtHeaders ==
    {JwtHeader(alg, typ, keys) :
        alg \in JwtAlgorithms, typ \in {Undefined, JStr("JWT"), JStr("JWS")},
        keys \in SUBSET {"kid", "unknownHeader"}}
    \cup {JStr("not-an-object")}

JwtPayloads ==
    {JObj(<<>>),
     JObj([k \in {"test"} |-> JStr("true")]),
     JObj([k \in {"sub", "iat", "test"} |->
             CASE k = "sub" -> JStr("1234567890")
               [] k = "iat" -> JNum(1516239022)
               [] k = "test" -> JStr("true")]),
     JObj([k \in {"exp"} |-> JNum(-1)]),
     JStr("not-an-object")}

JwtSignatures ==
    {Undefined, JStr(""), JStr(TestSignature), JStr(PaddedBase64), JStr(NotBase64Url),
     JNum(0)}

JwtObject(header, payload, signature, keys) ==
    JObj([k \in {"header", "payload"} \cup keys
                  \cup (IF signature.t = "undefined" THEN {} ELSE {"signature"}) |->
            CASE k = "header" -> header
              [] k = "payload" -> payload
              [] k = "signature" -> signature
              [] k = "unknownProperty" -> JStr("value")])

JwtObjects ==
    {JwtObject(h, p, s, keys) :
        h \in JwtHeaders, p \in JwtPayloads, s \in JwtSignatures,
        keys \in SUBSET {"unknownProperty"}}

\* Compact strings, and values that are no strings.
StringInputs ==
    {JStr(s) : s \in CompactStrings \cup {"", "only.one"}}
    \cup {JNull, Undefined, JNum(123), JArr(<<>>), JObj(<<>>)}

\* Values given to the one-or-many normalizer, nested arrays among them.
NestedArray == JArr(<<JStr("foo"), JArr(<<JStr("bar"), JStr("baz")>>)>>)

NormalizerInputs ==
    TypeInputs \cup {NestedArray, JArr(<<JArr(<<>>)>>), JArr(<<JStr("foo"), JStr("bar")>>)}

\* Required sets of the containment refinement, repetitions included.
RequiredLists == {JArr(a) : a \in SeqsUpTo({JStr(s) : s \in DeclaredTags}, MaxDeclared)}

\* DID methods and candidate values.
DidMethods == {JStr("example"), JStr("bad")}

DidCandidates ==
    {JStr(ExampleDid), JStr(BadDid), JStr("example"), JStr(NotAUri), JStr(""),
     JStr(CustomContext), JNum(42), JNull}

(***************************************************************************)
(* The state machine: one action per schema, each a whole validation call. *)
(***************************************************************************)
Init ==
    /\ \/ kind = "type" /\ arg \in TypeArgs /\ input \in TypeInputs
       \/ kind = "context" /\ arg \in ContextArgs /\ input \in ContextInputs
       \/ kind = "document" /\ arg = Undefined /\ input \in Documents
       \/ kind = "credential" /\ arg \in ContextSchemaArgs /\ input \in Credentials
       \/ kind = "presentation" /\ arg = Undefined /\ input \in Presentations
       \/ kind = "jwt" /\ arg = Undefined /\ input \in JwtObjects
       \/ kind = "string" /\ arg = Undefined /\ input \in StringInputs
       \/ kind = "normalize" /\ arg = Undefined /\ input \in NormalizerInputs
       \/ kind = "contain" /\ arg \in RequiredLists /\ input \in TypeInputs
       \/ kind = "did" /\ arg \in DidMethods /\ input \in DidCandidates
    /\ schema = "none"
    /\ result = Reject

\* A call that normalizes in place: an accepted output overwrites the input.
Call_inPlace(k, name, r) ==
    /\ kind = k
    /\ schema' = name
    /\ result' = r
    /\ input' = IF r.ok THEN r.value ELSE input
    /\ UNCHANGED <<kind, arg>>

\* One validation call: the schema `name` applied to the pending input.
Call(k, name, r) ==
    /\ kind = k
    /\ schema' = name
    /\ result' = r
    /\ UNCHANGED <<kind, arg, input>>

ZodCredentialTypeTuple ==
    Call("type", "zod.credentialTypeSchema.tuple", zod_credentialTypeSchema_tuple(arg, input))

ZodCredentialType ==
    Call("type", "zod.credentialTypeSchema", zod_credentialTypeSchema(arg, input))

ValibotCredentialType ==
    Call("type", "valibot.credentialTypeSchema", valibot_credentialTypeSchema(arg, input))

ZodPresentationType ==
    Call("type", "zod.presentationTypeSchema", zod_presentationTypeSchema(arg, input))

ValibotPresentationType ==
    Call("type", "valibot.vpTypeSchema", valibot_vpTypeSchema(arg, input))

ZodJsonLdContext ==
    Call("context", "zod.jsonLdContextSchema", zod_jsonLdContextSchema(arg, input))

ValibotJsonLdContext ==
    \E arrayIsObject \in BOOLEAN :
        Call("context", "valibot.jsonLdContextSchema",
             valibot_jsonLdContextSchema(arg, input, arrayIsObject))

ZodStatusList2021Credential ==
    Call("document", "zod.StatusList2021CredentialSchema",
         zod_StatusList2021CredentialSchema(input))

ZodBitstringStatusListCredential ==
    Call("document", "zod.BitstringStatusListCredentialSchema",
         zod_BitstringStatusListCredentialSchema(input))

VcV1Context == Call("context", "VcV1ContextSchema", VcV1ContextSchema(input))

VcV2Context == Call("context", "VcV2ContextSchema", VcV2ContextSchema(input))

VcContext == Call("context", "VcContextSchema", VcContextSchema(input))

ValibotVcV2Context ==
    Call("context", "valibot.VcV2ContextSchema", valibot_VcV2ContextSchema(input))

ValibotVcContext ==
    Call("context", "valibot.VcContextSchema", valibot_VcContextSchema(input))

ZodStatusList2021Context ==
    Call("context", "zod.StatusList2021CredentialContextSchema",
         zod_StatusListContextSchema(vcV1CoreContext, statusList2021Context, input))

ZodCredentialV1 ==
    Call("credential", "zod.CredentialV1Schema",
         zod_createCredentialV1Schema(arg, input))

ZodVerifiableCredentialV1 ==
    Call("credential", "zod.VerifiableCredentialV1Schema",
         zod_createVerifiableCredentialV1Schema(arg, input))

ZodSignedVerifiableCredentialV1 ==
    Call("credential", "zod.SignedVerifiableCredentialV1Schema",
         zod_createSignedVerifiableCredentialV1Schema(arg, input))

ZodCredentialV2 ==
    Call("credential", "zod.CredentialV2Schema",
         zod_createCredentialV2Schema(arg, input))

ZodVerifiableCredentialV2 ==
    Call("credential", "zod.VerifiableCredentialV2Schema",
         zod_createVerifiableCredentialV2Schema(arg, input))

ZodW3CCredential ==
    Call("credential", "zod.W3CCredentialSchema",
         zod_createCredentialSchema(input))

ZodVerifiableCredential ==
    Call("credential", "zod.VerifiableCredentialSchema",
         zod_createVerifiableCredentialSchema(input))

CredentialSubject ==
    Call("credential", "CredentialSubjectSchema",
         CredentialSubjectSchema(input.v["credentialSubject"]))

ValibotCredentialV1 ==
    \E arrayIsObject \in BOOLEAN :
        Call("credential", "valibot.CredentialV1Schema",
             valibot_createCredentialV1Schema(arg, arrayIsObject, input))

ValibotVerifiableCredentialV1 ==
    \E arrayIsObject \in BOOLEAN :
        Call("credential", "valibot.VerifiableCredentialV1Schema",
             valibot_createVerifiableCredentialV1Schema(arg, arrayIsObject, input))

ValibotCredentialV2 ==
    \E arrayIsObject \in BOOLEAN :
        Call("credential", "valibot.CredentialV2Schema",
             valibot_createCredentialV2Schema(arg, arrayIsObject, input))

ValibotVerifiableCredentialV2 ==
    \E arrayIsObject \in BOOLEAN :
        Call("credential", "valibot.VerifiableCredentialV2Schema",
             valibot_createVerifiableCredentialV2Schema(arg, arrayIsObject, input))

ValibotW3CCredential ==
    \E arrayIsObject \in BOOLEAN :
        Call("credential", "valibot.W3CCredentialSchema",
             valibot_createCredentialSchema(arg, arrayIsObject, input))

ValibotVerifiableCredential ==
    \E arrayIsObject \in BOOLEAN :
        Call("credential", "valibot.VerifiableCredentialSchema",
             valibot_createVerifiableCredentialSchema(arg, arrayIsObject, input))

ZodVerifiablePresentation ==
    Call("presentation", "zod.VerifiablePresentationSchema",
         zod_VerifiablePresentationSchema(input))

ValibotPresentation ==
    \E arrayIsObject \in BOOLEAN :
        Call("presentation", "valibot.PresentationSchema",
             valibot_PresentationSchema(arrayIsObject, input))

ValibotVerifiablePresentation ==
    \E arrayIsObject \in BOOLEAN :
        Call("presentation", "valibot.VerifiablePresentationSchema",
             valibot_VerifiablePresentationSchema(arrayIsObject, input))

ValibotVerifiablePresentationOptionalProof ==
    \E arrayIsObject \in BOOLEAN :
        Call("presentation", "valibot.VerifiablePresentationSchema.optionalProof",
             valibot_VerifiablePresentationSchema_optionalProof(arrayIsObject, input))

ZodJwtObject == Call("jwt", "zod.JwtObjectSchema", JwtObjectSchema(input))

ValibotJwtObject == Call("jwt", "valibot.JwtObjectSchema", JwtObjectSchema(input))

ZodJwtString == Call("string", "zod.JwtStringSchema", JwtStringSchema(input))

ValibotJwtString == Call("string", "valibot.JwtStringSchema", JwtStringSchema(input))

ZodJwsString == Call("string", "zod.JwsStringSchema", JwsStringSchema(input))

ValibotJwsString == Call("string", "valibot.JwsStringSchema", JwsStringSchema(input))

ZodDetachedJwsString ==
    Call("string", "zod.DetachedJwsStringSchema", DetachedJwsStringSchema(input))

ValibotDetachedJwsString ==
    Call("string", "valibot.DetachedJwsStringSchema", DetachedJwsStringSchema(input))

ZodOneOrMany == Call("normalize", "zod.oneOrMany", zod_oneOrMany(input))

ValibotOneOrMany == Call("normalize", "valibot.oneOrMany", valibot_oneOrMany(input))

ZodIncludesAll == Call("contain", "zod.includesAll", includesAllSchema(arg, input))

ValibotIncludesAll == Call("contain", "valibot.includesAll", includesAllSchema(arg, input))

ZodJwtStringParts ==
    Call("string", "zod.JwtStringPartsSchema", JwtStringPartsSchema(input))

ValibotJwtStringParts ==
    Call("string", "valibot.JwtStringPartsSchema", JwtStringPartsSchema(input))

ZodCreateDidSchema == Call("did", "zod.createDidSchema", zod_createDidSchema(arg, input))

ValibotCreateDidSchema ==
    Call("did", "valibot.createDidSchema", valibot_createDidSchema(arg, input))

\* isDidWithMethod(method, candidate), as the callers write it.
ZodIsDidWithMethod ==
    Call("did", "zod.isDidWithMethod", Accept(JBool(zod_isDidWithMethod(arg, input))))

ValibotIsDidWithMethod ==
    Call("did", "valibot.isDidWithMethod", Accept(JBool(valibot_isDidWithMethod(arg, input))))

Next ==
    \/ ZodCredentialTypeTuple
    \/ ZodCredentialType
    \/ ValibotCredentialType
    \/ ZodPresentationType
    \/ ValibotPresentationType
    \/ ZodJsonLdContext
    \/ ValibotJsonLdContext
    \/ ZodStatusList2021Credential
    \/ ZodBitstringStatusListCredential
    \/ VcV1Context
    \/ VcV2Context
    \/ VcContext
    \/ ValibotVcV2Context
    \/ ValibotVcContext
    \/ ZodStatusList2021Context
    \/ ZodCredentialV1
    \/ ZodVerifiableCredentialV1
    \/ ZodSignedVerifiableCredentialV1
    \/ ZodCredentialV2
    \/ ZodVerifiableCredentialV2
    \/ ZodW3CCredential
    \/ ZodVerifiableCredential
    \/ CredentialSubject
    \/ ValibotCredentialV1
    \/ ValibotVerifiableCredentialV1
    \/ ValibotCredentialV2
    \/ ValibotVerifiableCredentialV2
    \/ ValibotW3CCredential
    \/ ValibotVerifiableCredential
    \/ ZodVerifiablePresentation
    \/ ValibotPresentation
    \/ ValibotVerifiablePresentation
    \/ ValibotVerifiablePresentationOptionalProof
    \/ ZodJwtObject
    \/ ValibotJwtObject
    \/ ZodJwtString
    \/ ValibotJwtString
    \/ ZodJwsString
    \/ ValibotJwsString
    \/ ZodDetachedJwsString
    \/ ValibotDetachedJwsString
    \/ ZodOneOrMany
    \/ ValibotOneOrMany
    \/ ZodIncludesAll
    \/ ValibotIncludesAll
    \/ ZodJwtStringParts
    \/ ValibotJwtStringParts
    \/ ZodCreateDidSchema
    \/ ValibotCreateDidSchema
    \/ ZodIsDidWithMethod
    \/ ValibotIsDidWithMethod

Spec == Init /\ [][Next]_vars

(***************************************************************************)
(* Vocabulary of the properties.                                           *)
(***************************************************************************)
CredentialSchemas ==
    {"zod.credentialTypeSchema.tuple", "zod.credentialTypeSchema",
     "valibot.credentialTypeSchema"}

ContainmentSchemas == {"zod.credentialTypeSchema", "valibot.credentialTypeSchema"}

PresentationSchemas == {"zod.presentationTypeSchema", "valibot.vpTypeSchema"}

MandatoryTag ==
    IF schema \in CredentialSchemas THEN JStr(VcTypeLiteral) ELSE JStr(VpTypeLiteral)

\* No additional required types were declared.
Unconstrained == kind = "type" /\ arg = Undefined

\* One or more additional required types were declared, as a string or a list.
Constrained ==
    /\ kind = "type"
    /\ \/ IsString(arg) /\ arg.v /= ""
       \/ IsArray(arg) /\ Len(arg.v) >= 1

\* The declared additional types t1..tn, in the declared order.
Declared == IF IsString(arg) THEN <<arg>> ELSE arg.v

Elements(a) == {a[i] : i \in 1..Len(a)}

IsStringArray(x) == IsArray(x) /\ \A e \in Elements(x.v) : IsString(e)

\* The bare tag, or a non-empty array of strings whose first element is the tag.
TagFirst(x, tag) ==
    \/ x = tag
    \/ IsStringArray(x) /\ Len(x.v) >= 1 /\ x.v[1] = tag

\* The bare tag, or an array of strings holding the tag at any position.
TagPresent(x, tag) ==
    \/ x = tag
    \/ IsStringArray(x) /\ tag \in Elements(x.v)

\* The array a bare string or an array of strings normalizes to.
Normalized(x) == IF IsString(x) THEN <<x>> ELSE x.v

C2_ExactTupleEverywhere ==
    (schema \in CredentialSchemas /\ Constrained)
        => (result.ok <=> input = JArr(<<JStr(VcTypeLiteral)>> \o Declared))

\* C2 (amended): in constrained mode the exact-tuple validator accepts exactly
\* the array ["VerifiableCredential", t1, ..., tn].
C2_ExactTuple ==
    (schema = "zod.credentialTypeSchema.tuple" /\ Constrained)
        => (result.ok <=> input = JArr(<<JStr(VcTypeLiteral)>> \o Declared))

C2_Witness ==
    /\ schema = "zod.credentialTypeSchema.tuple"
    /\ Constrained
    /\ Len(Declared) = 2
    /\ result.ok

\* C3: under the containment policy in constrained mode, the input is
\* normalized to an array and is accepted exactly when that array holds
\* "VerifiableCredential" and every declared type, in any order and with any
\* extra tags; the output is the normalized array.
C3_Containment ==
    (schema \in ContainmentSchemas /\ Constrained)
        => /\ result.ok <=>
                /\ IsString(input) \/ IsStringArray(input)
                /\ JStr(VcTypeLiteral) \in Elements(Normalized(input))
                /\ Elements(Declared) \subseteq Elements(Normalized(input))
           /\ result.ok => result.value = JArr(Normalized(input))

C3_Witness ==
    /\ schema \in ContainmentSchemas
    /\ Constrained
    /\ result.ok
    /\ input.v[1] /= JStr(VcTypeLiteral)
    /\ Len(input.v) > Len(Declared) + 1

\* The first logical element of an output: the first item of an array, or the
\* bare value itself.
FirstLogical(x) == IF IsArray(x) /\ Len(x.v) >= 1 THEN x.v[1] ELSE x

\* C4: the first element of the output of every accepted input is the
\* mandatory tag of the validator.
C4_MandatoryTagFirst ==
    (kind = "type" /\ schema /= "none" /\ result.ok)
        => FirstLogical(result.value) = MandatoryTag

\* C5 (as stated): in unconstrained mode every accepted input of a credential
\* or presentation type-tag validator yields an array, a bare string the
\* one-element array holding it.
C5_AlwaysArrayEverywhere ==
    (schema \in CredentialSchemas \cup PresentationSchemas /\ Unconstrained /\ result.ok)
        => /\ IsArray(result.value)
           /\ IsString(input) => result.value = JArr(<<input>>)

\* C5 (amended): in unconstrained mode every accepted input of a credential
\* type-tag validator yields an array, a bare string the one-element array
\* holding it; a presentation type-tag validator returns its input unchanged.
C5_AlwaysArray ==
    /\ (schema \in CredentialSchemas /\ Unconstrained /\ result.ok)
          => /\ IsArray(result.value)
             /\ IsString(input) => result.value = JArr(<<input>>)
    /\ (schema \in PresentationSchemas /\ Unconstrained /\ result.ok)
          => result.value = input

C5_Witness ==
    /\ schema \in CredentialSchemas
    /\ Unconstrained
    /\ result.ok
    /\ IsString(input)

\* C6: in constrained mode the output of every accepted input starts with the
\* mandatory tag followed by the declared types in the declared order (the
\* extra tags of the input come after them).
C6_OutputOrder ==
    (schema \in CredentialSchemas /\ Constrained /\ result.ok)
        => /\ IsArray(result.value)
           /\ Len(result.value.v) >= Len(Declared) + 1
           /\ SubSeq(result.value.v, 1, Len(Declared) + 1)
                 = <<JStr(VcTypeLiteral)>> \o Declared

\* The set R of mandated context URIs.
Mandated == IF IsString(arg) THEN {arg} ELSE Elements(arg.v)

ContextSchemas == {"zod.jsonLdContextSchema", "valibot.jsonLdContextSchema"}

\* Every entry of an array is a well-formed URI string.
AllUris(a) == \A e \in Elements(a) : UriSchema(e).ok

\* C7 (as stated): StatusList2021CredentialSchema accepts a document only if
\* its type is exactly ["VerifiableCredential", "StatusList2021Credential"], and
\* BitstringStatusListCredentialSchema only if its type is exactly
\* ["VerifiableCredential", "BitstringStatusListCredential"].
StatusListTag ==
    IF schema = "zod.StatusList2021CredentialSchema"
    THEN "StatusList2021Credential" ELSE "BitstringStatusListCredential"

C7_StatusListTypeExact ==
    (kind = "document" /\ schema /= "none" /\ result.ok) =>
        input.v["type"] = JArr(<<JStr(VcTypeLiteral), JStr(StatusListTag)>>)

C9_BareString ==
    (schema \in ContextSchemas /\ IsString(input))
        => (result.ok <=> (Cardinality(Mandated) = 1 /\ input \in Mandated))

C9_Witness ==
    /\ schema \in ContextSchemas
    /\ IsString(input)
    /\ result.ok

\* C10: a key-to-value mapping is accepted exactly when every value is a
\* mandated URI or a well-formed URI string, whatever its keys.
C10_Mapping ==
    (schema \in ContextSchemas /\ IsObject(input))
        => (result.ok <=>
               \A k \in DOMAIN input.v :
                   input.v[k] \in Mandated \/ UriSchema(input.v[k]).ok)

C10_Witness ==
    /\ schema \in ContextSchemas
    /\ IsObject(input)
    /\ result.ok
    /\ Cardinality(DOMAIN input.v) = 2
    /\ \E k \in DOMAIN input.v : input.v[k] \notin Mandated

\* The result of a context schema that takes arrays, on the value x.
ArrayContextResult(name, x) ==
    CASE name = "VcV1ContextSchema" -> VcV1ContextSchema(x)
      [] name = "VcV2ContextSchema" -> VcV2ContextSchema(x)
      [] name = "VcContextSchema" -> VcContextSchema(x)
      [] name = "valibot.VcV2ContextSchema" -> valibot_VcV2ContextSchema(x)
      [] name = "valibot.VcContextSchema" -> valibot_VcContextSchema(x)
      [] name = "zod.StatusList2021CredentialContextSchema" ->
            zod_StatusListContextSchema(vcV1CoreContext, statusList2021Context, x)
      [] name = "zod.jsonLdContextSchema" -> zod_jsonLdContextSchema(arg, x)

ArrayContextSchemas ==
    {"VcV1ContextSchema", "VcV2ContextSchema", "VcContextSchema",
     "valibot.VcV2ContextSchema", "valibot.VcContextSchema",
     "zod.StatusList2021CredentialContextSchema", "zod.jsonLdContextSchema"}

IndexPermutations(n) == {p \in [1..n -> 1..n] : \A i, j \in 1..n : p[i] = p[j] => i = j}

\* C11 (as stated): whenever a context schema accepts an array, it accepts
\* every permutation of that array.
C11_PermutationInvariant ==
    (schema \in ArrayContextSchemas /\ IsArray(input) /\ result.ok)
        => \A p \in IndexPermutations(Len(input.v)) :
               ArrayContextResult(schema, JArr([i \in 1..Len(input.v) |-> input.v[p[i]]])).ok

C11_Witness ==
    /\ schema = "zod.StatusList2021CredentialContextSchema"
    /\ IsArray(input)
    /\ result.ok
    /\ Len(input.v) = 3
    /\ input.v[1] /= JStr(vcV1CoreContext)
    /\ input.v[2] /= JStr(statusList2021Context)

(***************************************************************************)
(* Vocabulary of the credential properties.                                *)
(***************************************************************************)
V1Schemas ==
    {"zod.CredentialV1Schema", "zod.VerifiableCredentialV1Schema",
     "zod.SignedVerifiableCredentialV1Schema",
     "valibot.CredentialV1Schema", "valibot.VerifiableCredentialV1Schema"}

V2Schemas ==
    {"zod.CredentialV2Schema", "zod.VerifiableCredentialV2Schema",
     "valibot.CredentialV2Schema", "valibot.VerifiableCredentialV2Schema"}

CombinedSchemas ==
    {"zod.W3CCredentialSchema", "zod.VerifiableCredentialSchema",
     "valibot.W3CCredentialSchema", "valibot.VerifiableCredentialSchema"}

\* The schemas built with makeVerifiable, whose proof is required.
SignedSchemas ==
    {"zod.SignedVerifiableCredentialV1Schema", "zod.VerifiableCredentialV2Schema",
     "valibot.VerifiableCredentialV1Schema", "valibot.VerifiableCredentialV2Schema"}

\* The schemas exported under the optional-proof names.
VerifiableSchemas ==
    {"zod.VerifiableCredentialV1Schema", "zod.VerifiableCredentialV2Schema",
     "zod.VerifiableCredentialSchema",
     "valibot.VerifiableCredentialV1Schema", "valibot.VerifiableCredentialV2Schema",
     "valibot.VerifiableCredentialSchema"}

\* The outcome of the last call does not depend on whether v.record takes an
\* array for an object: the schema is a zod schema, or the @context no array.
RecordIndependent ==
    \/ schema \in {"zod.CredentialV1Schema", "zod.VerifiableCredentialV1Schema",
                   "zod.SignedVerifiableCredentialV1Schema", "zod.CredentialV2Schema",
                   "zod.VerifiableCredentialV2Schema", "zod.W3CCredentialSchema",
                   "zod.VerifiableCredentialSchema"}
    \/ ~IsArray(input.v["@context"])

\* The core URI is the @context, or an element of it, or of an array in it.
ContextHolds(context, core) ==
    \/ context = JStr(core)
    \/ /\ IsArray(context)
       /\ \E i \in 1..Len(context.v) :
             \/ context.v[i] = JStr(core)
             \/ IsArray(context.v[i]) /\ Includes(context.v[i].v, JStr(core))

\* C12 (as stated): every document accepted by a V1 credential schema has the
\* V1 core context URI in its @context, and every document accepted by a V2
\* credential schema the V2 core context URI, whatever additional contexts the
\* schema was created with.
C12_CoreContextPresent ==
    (kind = "credential" /\ RecordIndependent /\ result.ok)
        => /\ schema \in V1Schemas => ContextHolds(input.v["@context"], vcV1CoreContext)
           /\ schema \in V2Schemas => ContextHolds(input.v["@context"], vcV2CoreContext)

\* C13 (as stated): a credential that carries both issuanceDate and validFrom
\* is rejected by the V1 schemas, the V2 schemas and the combined schemas.
C13_BothDatesRejected ==
    (/\ schema \in V1Schemas \cup V2Schemas \cup CombinedSchemas
     /\ RecordIndependent
     /\ {"issuanceDate", "validFrom"} \subseteq Keys(input))
        => ~result.ok

\* The document is accepted by the V1 schema of the library of the last call.
V1Valid ==
    IF schema \in {"zod.CredentialV2Schema", "zod.VerifiableCredentialV2Schema"}
    THEN zod_createVerifiableCredentialV1Schema(arg, input).ok
    ELSE \A arrayIsObject \in BOOLEAN :
             valibot_createCredentialV1Schema(arg, arrayIsObject, input).ok

\* C14 (as stated, its V2 half): a V1-valid credential with issuanceDate
\* present and validFrom absent is rejected by the V2 schemas.
C14_V1DocumentFailsV2 ==
    (/\ schema \in V2Schemas
     /\ RecordIndependent
     /\ "issuanceDate" \in Keys(input)
     /\ "validFrom" \notin Keys(input)
     /\ V1Valid)
        => ~result.ok

\* The document carries at least one proof, and every proof it carries is valid.
HasValidProof(x) ==
    /\ "proof" \in Keys(x)
    /\ IF IsArray(x.v["proof"])
       THEN /\ Len(x.v["proof"].v) >= 1
            /\ \A i \in 1..Len(x.v["proof"].v) : ProofSchema(x.v["proof"].v[i]).ok
       ELSE ProofSchema(x.v["proof"]).ok

WithoutProof(x) == JObj([k \in Keys(x) \ {"proof"} |-> x.v[k]])

\* The unsigned Credential schema a signed schema is made from.
Unsigned(name, arrayIsObject, x) ==
    CASE name \in {"zod.SignedVerifiableCredentialV1Schema", "zod.VerifiableCredentialV1Schema"} ->
            zod_createCredentialV1Schema(arg, x)
      [] name = "zod.VerifiableCredentialV2Schema" -> zod_createCredentialV2Schema(arg, x)
      [] name = "zod.VerifiableCredentialSchema" -> zod_createCredentialSchema(x)
      [] name = "valibot.VerifiableCredentialV1Schema" ->
            valibot_createCredentialV1Schema(arg, arrayIsObject, x)
      [] name = "valibot.VerifiableCredentialV2Schema" ->
            valibot_createCredentialV2Schema(arg, arrayIsObject, x)
      [] name = "valibot.VerifiableCredentialSchema" ->
            valibot_createCredentialSchema(arg, arrayIsObject, x)

\* C15 (as stated): a signed schema accepts a document if and only if the
\* document carries at least one valid proof and, with its proof removed, is
\* accepted by the unsigned Credential schema.
C15_SignedIsCredentialWithProof ==
    (schema \in SignedSchemas /\ RecordIndependent)
        => \E arrayIsObject \in BOOLEAN :
               result.ok <=> /\ HasValidProof(input)
                             /\ Unsigned(schema, arrayIsObject, WithoutProof(input)).ok

\* C16 (as stated): VerifiableCredentialV1Schema, VerifiableCredentialV2Schema
\* and VerifiableCredentialSchema accept a credential without a proof field
\* that the unsigned Credential schema accepts.
C16_ProofOptional ==
    (/\ schema \in VerifiableSchemas
     /\ RecordIndependent
     /\ "proof" \notin Keys(input)
     /\ \A arrayIsObject \in BOOLEAN : Unsigned(schema, arrayIsObject, input).ok)
        => result.ok

\* The result of the first of two options that accepts.
FirstAccepting(v1, v2) == IF v1.ok THEN v1 ELSE IF v2.ok THEN v2 ELSE Reject

\* C17: the combined schema accepts a document if and only if the V1 or the
\* V2 schema accepts it, and its output is that of the V1 schema if the V1
\* schema accepts, of the V2 schema otherwise.
C17_V1ThenV2 ==
    /\ schema = "zod.W3CCredentialSchema"
          => result = FirstAccepting(zod_createCredentialV1Schema(Undefined, input),
                                     zod_createCredentialV2Schema(Undefined, input))
    /\ schema = "zod.VerifiableCredentialSchema"
          => result = FirstAccepting(zod_createVerifiableCredentialV1Schema(Undefined, input),
                                     zod_createVerifiableCredentialV2Schema(Undefined, input))
    /\ schema = "valibot.W3CCredentialSchema"
          => \E b \in BOOLEAN :
                 result = FirstAccepting(valibot_createCredentialV1Schema(arg, b, input),
                                         valibot_createCredentialV2Schema(arg, b, input))
    /\ schema = "valibot.VerifiableCredentialSchema"
          => \E b \in BOOLEAN :
                 result = FirstAccepting(
                              valibot_createVerifiableCredentialV1Schema(arg, b, input),
                              valibot_createVerifiableCredentialV2Schema(arg, b, input))

\* Reached: the combined schema accepts a V2 document the V1 schema rejects.
C17_Witness ==
    /\ schema = "zod.VerifiableCredentialSchema"
    /\ result.ok
    /\ ~zod_createVerifiableCredentialV1Schema(Undefined, input).ok
    /\ input.v["@context"] = JStr(vcV2CoreContext)

\* C18: a credentialSubject object with fields the schema does not know is
\* accepted, and the output carries every field of it unchanged, by the subject
\* schema itself and inside every credential schema.
C18_SubjectOpen ==
    /\ (/\ schema = "CredentialSubjectSchema"
        /\ IsObject(input.v["credentialSubject"])
        /\ "id" \in Keys(input.v["credentialSubject"])
              => IsString(input.v["credentialSubject"].v["id"]))
          => /\ result.ok
             /\ result.value = input.v["credentialSubject"]
    /\ (/\ schema \in V1Schemas \cup V2Schemas \cup CombinedSchemas
        /\ result.ok
        /\ IsObject(input.v["credentialSubject"]))
          => result.value.v["credentialSubject"] = input.v["credentialSubject"]

C18_Witness ==
    /\ schema \in {"CredentialSubjectSchema", "zod.CredentialV1Schema"}
    /\ result.ok
    /\ "name" \in Keys(input.v["credentialSubject"])
    /\ LET subject == IF schema = "CredentialSubjectSchema"
                      THEN result.value ELSE result.value.v["credentialSubject"]
       IN  subject.v["name"] = JStr("Alice")

MinimalPresentation == Presentation(JStr(vcV1CoreContext), JStr(VpTypeLiteral), Undefined, Undefined, {})

\* C19 (as stated): VerifiablePresentationSchema accepts the presentation that
\* has only @context, the V1 core context string, and type, the bare string
\* "VerifiablePresentation", and the parsed type is that bare string.
C19_MinimalPresentation ==
    (/\ schema \in {"zod.VerifiablePresentationSchema", "valibot.VerifiablePresentationSchema",
                    "valibot.VerifiablePresentationSchema.optionalProof"}
     /\ input = MinimalPresentation)
        => /\ result.ok
           /\ result.value.v["type"] = JStr(VpTypeLiteral)

JwtSchemas == {"zod.JwtObjectSchema", "valibot.JwtObjectSchema"}

\* The field `k` of the object `x`, Undefined if x is no object or has no such key.
FieldOf(x, k) == IF k \in Keys(x) THEN x.v[k] ELSE Undefined

\* A non-empty string over the base64url alphabet.
NonEmptyBase64Url(x) ==
    /\ IsString(x)
    /\ x.v /= ""
    /\ \A i \in 1..Len(Chars(x.v)) : Chars(x.v)[i] \in Letters \cup Digits \cup {"_", "-"}

\* The header is valid but for its algorithm, and the payload is valid.
JwtOtherwiseValid(x) ==
    /\ JwtHeaderBaseSchema(FieldOf(x, "header")).ok
    /\ JwtPayloadSchema(FieldOf(x, "payload")).ok

\* C20: a JWT object whose header, but for alg, and payload are valid is
\* accepted if and only if alg is "none" and the signature is the empty
\* string, or alg is a signature algorithm and the signature is a non-empty
\* base64url string.
C20_SignatureMatchesAlgorithm ==
    (schema \in JwtSchemas /\ JwtOtherwiseValid(input))
        => LET alg == FieldOf(input.v["header"], "alg")
               signature == FieldOf(input, "signature")
           IN  result.ok <=>
                   \/ alg = JStr("none") /\ signature = JStr("")
                   \/ /\ IsString(alg)
                      /\ alg.v \in joseSignatureAlgorithms
                      /\ NonEmptyBase64Url(signature)

\* Reached: a signature algorithm with the empty signature is rejected.
C20_Witness ==
    /\ schema \in JwtSchemas
    /\ JwtOtherwiseValid(input)
    /\ FieldOf(input.v["header"], "alg") = JStr("HS256")
    /\ FieldOf(input, "signature") = JStr("")
    /\ ~result.ok

(***************************************************************************)
(* Compact strings: segments, and the header a first segment encodes.      *)
(***************************************************************************)
IsBase64Url(cs) == \A i \in 1..Len(cs) : cs[i] \in Letters \cup Digits \cup {"_", "-"}

Base64UrlAlphabet ==
    <<"A", "B", "C", "D", "E", "F", "G", "H", "I", "J", "K", "L", "M",
      "N", "O", "P", "Q", "R", "S", "T", "U", "V", "W", "X", "Y", "Z",
      "a", "b", "c", "d", "e", "f", "g", "h", "i", "j", "k", "l", "m",
      "n", "o", "p", "q", "r", "s", "t", "u", "v", "w", "x", "y", "z",
      "0", "1", "2", "3", "4", "5", "6", "7", "8", "9", "-", "_">>

SextetOf(c) == (CHOOSE i \in 1..64 : Base64UrlAlphabet[i] = c) - 1

\* The octets a base64url segment encodes: octet n is bits 8(n-1) .. 8n-1 of
\* the concatenated sextets.
Base64UrlDecode(cs) ==
    [n \in 1..((Len(cs) * 6) \div 8) |->
        LET bit == 8 * (n - 1)
            first == bit \div 6
            window == SextetOf(cs[first + 1]) * 64 + SextetOf(cs[first + 2])
        IN  (window \div 2 ^ (4 - (bit % 6))) % 256]

\* The octets of {"alg":" and of "}, and of the text none.
AlgPrefix == <<123, 34, 97, 108, 103, 34, 58, 34>>
AlgSuffix == <<34, 125>>
NoneOctets == <<110, 111, 110, 101>>

\* The alg of a header segment that encodes {"alg":"..."}: its octets, or
\* the empty sequence if the segment encodes no such header.
DeclaredAlg(cs) ==
    IF ~IsBase64Url(cs) THEN <<>>
    ELSE LET octets == Base64UrlDecode(cs)
             n == Len(octets)
         IN  IF /\ n > Len(AlgPrefix) + Len(AlgSuffix)
                /\ SubSeq(octets, 1, Len(AlgPrefix)) = AlgPrefix
                /\ SubSeq(octets, n - 1, n) = AlgSuffix
             THEN SubSeq(octets, Len(AlgPrefix) + 1, n - 2)
             ELSE <<>>

JwtStringSchemas == {"zod.JwtStringSchema", "valibot.JwtStringSchema"}

\* C21 (as stated): an accepted compact JWT has exactly three segments, and
\* its third segment is empty if and only if its header declares alg "none".
C21_EmptySignatureIffNone ==
    (schema \in JwtStringSchemas /\ result.ok)
        => LET segments == Split(Chars(input.v))
           IN  /\ Len(segments) = 3
               /\ (segments[3] = <<>>) <=> (DeclaredAlg(segments[1]) = NoneOctets)

\* C21 (amended): the JWT string schema accepts exactly the strings with three
\* dot-separated base64url segments of which the first two are non-empty; the
\* third may be empty whatever the header declares, and the output is the input.
C21_ThreeSegments ==
    schema \in JwtStringSchemas
        => /\ result.ok <=>
                  /\ IsString(input)
                  /\ LET segments == Split(Chars(input.v))
                     IN  /\ Len(segments) = 3
                         /\ \A i \in 1..3 : IsBase64Url(segments[i])
                         /\ segments[1] /= <<>> /\ segments[2] /= <<>>
           /\ result.ok => result.value = input

\* Reached: a header declaring HS256 with an empty third segment is accepted.
C21_Witness ==
    /\ schema \in JwtStringSchemas
    /\ result.ok
    /\ input = JStr(Compact(HS256Header, "e30", "", ""))
    /\ DeclaredAlg(Split(Chars(input.v))[1]) /= NoneOctets
    /\ Split(Chars(input.v))[3] = <<>>

JwsStringSchemas == {"zod.JwsStringSchema", "valibot.JwsStringSchema"}

\* C22 (as stated): JwsStringSchema rejects every string whose middle segment
\* is empty; only the detached schema accepts the form header..signature.
C22_EmptyPayloadRejected ==
    (/\ schema \in JwsStringSchemas
     /\ IsString(input)
     /\ Len(Split(Chars(input.v))) >= 2
     /\ Split(Chars(input.v))[2] = <<>>)
        => ~result.ok

OneOrManySchemas == {"zod.oneOrMany", "valibot.oneOrMany"}

\* The normalizer named by `name` applied to x.
OneOrManyOf(name, x) == IF name = "zod.oneOrMany" THEN zod_oneOrMany(x) ELSE valibot_oneOrMany(x)

\* C23: the one-or-many normalizer maps a bare string to the one-element array
\* holding it and an accepted array to an array with the same elements in the
\* same order, and applied to its own output it returns that output.
C23_NormalizerIdempotent ==
    (schema \in OneOrManySchemas /\ result.ok)
        => /\ IsString(input) => result.value = JArr(<<input>>)
           /\ IsArray(input) => result.value = input
           /\ IsArray(result.value)
           /\ OneOrManyOf(schema, result.value) = result

\* Reached: a bare string normalized, and an array of two elements kept.
C23_Witness ==
    /\ schema \in OneOrManySchemas
    /\ result.ok
    /\ input = JArr(<<JStr("foo"), JStr("bar")>>)
    /\ OneOrManyOf(schema, JStr("foo")) = Accept(JArr(<<JStr("foo")>>))

IncludesAllSchemas == {"zod.includesAll", "valibot.includesAll"}

\* The sequence a with its elements in the order p.
Reordered(a, p) == [i \in 1..Len(a) |-> a[p[i]]]

\* C24: the containment refinement accepts an array A of strings if and only
\* if every element of the required list R occurs in A; reordering A or R
\* does not change the verdict, and an accepted A with one more element is
\* still accepted.
C24_ContainmentIsSetInclusion ==
    (schema \in IncludesAllSchemas /\ IsStringArray(input))
        => /\ result.ok <=> Elements(arg.v) \subseteq Elements(input.v)
           /\ \A p \in IndexPermutations(Len(input.v)) :
                  includesAll(arg.v, Reordered(input.v, p)) = result.ok
           /\ \A p \in IndexPermutations(Len(arg.v)) :
                  includesAll(Reordered(arg.v, p), input.v) = result.ok
           /\ result.ok => \A e \in TypeItems : includesAll(arg.v, Append(input.v, e))

\* Reached: two required elements found, in the other order, among three.
C24_Witness ==
    /\ schema \in IncludesAllSchemas
    /\ result.ok
    /\ Len(arg.v) = 2 /\ arg.v[1] /= arg.v[2]
    /\ Len(input.v) = 3
    /\ input.v[2] = arg.v[2] /\ input.v[3] = arg.v[1]
    /\ input.v[1] \notin Elements(arg.v)

\* C29 (as stated): oneOrMany over strings accepts the nested array
\* ["foo", ["bar", "baz"]] and returns the flat array ["foo", "bar", "baz"].
C29_NestedFlattened ==
    (schema \in OneOrManySchemas /\ input = NestedArray)
        => result = Accept(JArr(<<JStr("foo"), JStr("bar"), JStr("baz")>>))

JwtStringPartsSchemas == {"zod.JwtStringPartsSchema", "valibot.JwtStringPartsSchema"}

\* C25: no validation raises an exception: every call returns an accepted
\* output or a rejection, whatever the type of its input.
C25_NeverThrows ==
    /\ result.value.t /= "exception"
    /\ result.ok \/ result = Reject

\* Reached: the parts schema rejects a string with an empty payload segment,
\* on which its transform would throw, and splits an accepted one.
C25_Witness ==
    /\ schema \in JwtStringPartsSchemas
    /\ input = JStr(Compact("a", "", "c", ""))
    /\ result = Reject
    /\ JwtStringPartsTransform(Chars(input.v)) = Throw("Invalid JWT string")
    /\ JwtStringPartsSchema(JStr(Compact("A", "b", "", ""))).ok

\* The schemas whose result depends on how v.record treats an array, which
\* the model leaves open.
RecordDependentSchemas ==
    {"valibot.jsonLdContextSchema", "valibot.CredentialV1Schema",
     "valibot.VerifiableCredentialV1Schema", "valibot.CredentialV2Schema",
     "valibot.VerifiableCredentialV2Schema", "valibot.W3CCredentialSchema",
     "valibot.VerifiableCredentialSchema", "valibot.PresentationSchema",
     "valibot.VerifiablePresentationSchema",
     "valibot.VerifiablePresentationSchema.optionalProof"}

SharedSchemas ==
    {"VcV2ContextSchema", "VcContextSchema", "zod.CredentialV1Schema",
     "zod.VerifiableCredentialV1Schema", "zod.CredentialV2Schema",
     "zod.VerifiableCredentialV2Schema", "zod.W3CCredentialSchema",
     "zod.VerifiableCredentialSchema", "zod.VerifiablePresentationSchema",
     "zod.JwtObjectSchema", "zod.JwtStringSchema", "zod.JwsStringSchema"}

ValibotCounterpart(name, x) ==
    CASE name = "VcV2ContextSchema" -> valibot_VcV2ContextSchema(x)
      [] name = "VcContextSchema" -> valibot_VcContextSchema(x)
      [] name = "zod.CredentialV1Schema" -> valibot_createCredentialV1Schema(Undefined, FALSE, x)
      [] name = "zod.VerifiableCredentialV1Schema" ->
            valibot_createVerifiableCredentialV1Schema(Undefined, FALSE, x)
      [] name = "zod.CredentialV2Schema" -> valibot_createCredentialV2Schema(Undefined, FALSE, x)
      [] name = "zod.VerifiableCredentialV2Schema" ->
            valibot_createVerifiableCredentialV2Schema(Undefined, FALSE, x)
      [] name = "zod.W3CCredentialSchema" -> valibot_createCredentialSchema(Undefined, FALSE, x)
      [] name = "zod.VerifiableCredentialSchema" ->
            valibot_createVerifiableCredentialSchema(Undefined, FALSE, x)
      [] name = "zod.VerifiablePresentationSchema" ->
            valibot_VerifiablePresentationSchema(FALSE, x)
      [] name = "zod.JwtObjectSchema" -> JwtObjectSchema(x)
      [] name = "zod.JwtStringSchema" -> JwtStringSchema(x)
      [] name = "zod.JwsStringSchema" -> JwsStringSchema(x)

\* The input has no array that a valibot record schema could be applied to.
NoArrayContext(x) ==
    \/ kind \notin {"credential", "presentation"}
    \/ /\ ~IsArray(x.v["@context"])
       /\ "verifiableCredential" \in Keys(x) => IsString(x.v["verifiableCredential"])

\* C27 (as stated): a schema exported under one name by both libraries
\* accepts the same inputs in both.
C27_SameAcceptance ==
    (/\ schema \in SharedSchemas
     /\ kind = "credential" => arg = Undefined
     /\ NoArrayContext(input))
        => (result.ok <=> ValibotCounterpart(schema, input).ok)

\* C28 (as stated): isDidWithMethod(method, candidate) returns true exactly
\* when createDidSchema(method) of the same library accepts the candidate.
C28_HelperMatchesSchema ==
    /\ schema = "zod.isDidWithMethod"
          => result.value = JBool(zod_createDidSchema(arg, input).ok)
    /\ schema = "valibot.isDidWithMethod"
          => result.value = JBool(valibot_createDidSchema(arg, input).ok)

\* The type-tag validator behind a schema name, built from the argument a.
TypeSchemaOf(name, a, x) ==
    CASE name = "zod.credentialTypeSchema.tuple" -> zod_credentialTypeSchema_tuple(a, x)
      [] name = "zod.credentialTypeSchema" -> zod_credentialTypeSchema(a, x)
      [] name = "valibot.credentialTypeSchema" -> valibot_credentialTypeSchema(a, x)
      [] name = "zod.presentationTypeSchema" -> zod_presentationTypeSchema(a, x)
      [] name = "valibot.vpTypeSchema" -> valibot_vpTypeSchema(a, x)

\* C30 (as stated): a type-tag validator built from the bare string s accepts
\* the same inputs and produces the same outputs as the one built from the
\* one-element list [s], for credential and presentation validators alike.
C30_StringIsSingleton ==
    (/\ kind = "type"
     /\ schema \in CredentialSchemas \cup PresentationSchemas
     /\ IsString(arg))
        => result = TypeSchemaOf(schema, JArr(<<arg>>), input)

====
